---------------------------- MODULE Spec2Model ----------------------------
(***************************************************************************)
(* A model of the single-threaded TCP load balancer: the token codec       *)
(* (connection.rs), the paired connection and its tick() (connection.rs),  *)
(* the event dispatcher (driver.rs) and live reconfiguration               *)
(* (driver_state.rs).                                                      *)
(*                                                                         *)
(* Sockets and the poller are the environment.  A read, a write, an        *)
(* accept, a connect and a bind may each end in any of the results the     *)
(* operating system can give; the model draws them with \E.  The bytes of  *)
(* a stream are numbered 1, 2, 3, ... in the order the peer sent them, so  *)
(* that a dropped, repeated or reordered byte shows in what was written.   *)
(***************************************************************************)
EXTENDS Integers, Sequences, FiniteSets, TLC

(***************************************************************************)
(* Bounds of the model.                                                    *)
(***************************************************************************)
\* Width of the machine word (usize) the token codec is checked at.
WordBits == 4
\* buffers.connections: capacity of the incoming and of the outgoing slab.
ConnectionsCap == 2
\* buffers.listeners: capacity of the listener slab.
ListenersCap == 2
\* Length of BufferArray ([u8; 4096] in the source), scaled down.
BufferSize == 2
\* Bytes the peers send in one run of the data-plane specification.
MaxBytes == 2
\* Connections the clients open in one run of the routing specification.
MaxAccepts == 3
\* Configurations applied in one run of the listener specification.
MaxReconfs == 3
\* Events the poller returns in one batch.
MaxBatch == 2
\* Messages an administrator sends to the dispatcher in one run.
MaxSends == 2

(***************************************************************************)
(* Small helpers.                                                          *)
(***************************************************************************)
Pow2(n) == IF n <= 0 THEN 1 ELSE 2 ^ n

Min(a, b) == IF a <= b THEN a ELSE b

Range(f) == {f[x] : x \in DOMAIN f}

\* The function f without the key k.
Without(f, k) == [x \in DOMAIN f \ {k} |-> f[x]]

\* The function f with the key k (new or old) set to v.
With(f, k, v) == [x \in DOMAIN f \cup {k} |-> IF x = k THEN v ELSE f[x]]

\* The sequence <<a+1, ..., a+n>>.
Bytes(a, n) == [i \in 1..n |-> a + i]

(***************************************************************************)
(* Token codec: TokenType::from_raw_token and the three as_raw_token.      *)
(* A raw token is a usize; the model keeps WordBits bits of it.            *)
(***************************************************************************)
WordMod == Pow2(WordBits)

Variants == {"Listener", "Incoming", "Outgoing"}

\* ListenerToken::as_raw_token: Token(self.0 << 2)
ListenerAsRawToken(slot) == (slot * 4) % WordMod

\* A faulty encoder that shifts the slot by one bit only; the round trip
\* tells it from IncomingToken::as_raw_token.
IncomingShiftedByOne(slot) == (((slot * 2) % WordMod) + 1) % WordMod

\* IncomingToken::as_raw_token: Token((self.0 << 2) + 1)
IncomingAsRawToken(slot) == (((slot * 4) % WordMod) + 1) % WordMod

\* OutgoingToken::as_raw_token: Token((self.0 << 2) + 2)
OutgoingAsRawToken(slot) == (((slot * 4) % WordMod) + 2) % WordMod

as_raw_token(t) ==
    CASE t.variant = "Listener" -> ListenerAsRawToken(t.slot)
      [] t.variant = "Incoming" -> IncomingAsRawToken(t.slot)
      [] t.variant = "Outgoing" -> OutgoingAsRawToken(t.slot)

\* TokenType::from_raw_token: match i & 3 { 0, 1, 2, _ => unreachable!() }
from_raw_token(i) ==
    CASE i % 4 = 0 -> [variant |-> "Listener", slot |-> i \div 4]
      [] i % 4 = 1 -> [variant |-> "Incoming", slot |-> i \div 4]
      [] i % 4 = 2 -> [variant |-> "Outgoing", slot |-> i \div 4]
      [] OTHER     -> [variant |-> "unreachable", slot |-> i \div 4]

(***************************************************************************)
(* Ready: a set of readiness bits.  UnixReady adds ERR and HUP.            *)
(***************************************************************************)
Flags == {"R", "W", "ERR", "HUP"}

\* The readiness values a socket event of the model carries.
ReadyValues == {{"R"}, {"W"}, {"R", "HUP"}, {"W", "ERR"}}

is_readable(ready) == "R" \in ready

is_writable(ready) == "W" \in ready

(***************************************************************************)
(* EndPoint and Connection (connection.rs).  An end point's stream is the  *)
(* socket: addr is the local address of an accepted socket and the peer    *)
(* address of a connected one; read counts the bytes read from it so far   *)
(* and written lists the bytes written to it.  buffer holds the first      *)
(* buffer_index bytes of the source's array, the rest of which is stale.   *)
(***************************************************************************)
\* EndPointType::Front and EndPointType::Back, the indices of points.
Front == 0

Back == 1

\* EndPoint::new
NewEndPoint(addr) ==
    [state        |-> {},
     stream       |-> [addr |-> addr, read |-> 0, written |-> <<>>],
     buffer       |-> <<>>,
     buffer_index |-> 0]

\* Connection::new
NewConnection(incoming_addr, outgoing_addr, outgoing_token) ==
    [points        |-> [p \in {Front, Back} |->
                           IF p = Front THEN NewEndPoint(incoming_addr)
                                        ELSE NewEndPoint(outgoing_addr)],
     backend_token |-> outgoing_token]

\* Connection::incoming_ready: state.insert(events)
ConnIncomingReady(c, events) ==
    [c EXCEPT !.points[Front].state = @ \cup events]

\* Connection::outgoing_ready: state.insert(events)
ConnOutgoingReady(c, events) ==
    [c EXCEPT !.points[Back].state = @ \cup events]

is_outgoing_closed(c) ==
    "ERR" \in c.points[Back].state \/ "HUP" \in c.points[Back].state

is_incoming_closed(c) ==
    "ERR" \in c.points[Front].state \/ "HUP" \in c.points[Front].state

outgoing_token(c) == c.backend_token

\* EndPoint::absorb with the read returning n_read bytes (0 for Ok(0), for
\* WouldBlock and for any other error): the bytes go behind buffer_index.
\* A faulty absorb that empties the buffer when the read returns nothing.
absorb_reset(point, n_read) ==
    IF n_read = 0
    THEN [point EXCEPT !.buffer = <<>>, !.buffer_index = 0]
    ELSE [point EXCEPT !.buffer       = @ \o Bytes(point.stream.read, n_read),
                       !.buffer_index = @ + n_read,
                       !.stream.read  = @ + n_read]

absorb(point, n_read) ==
    [point EXCEPT !.buffer       = @ \o Bytes(point.stream.read, n_read),
                  !.buffer_index = @ + n_read,
                  !.stream.read  = @ + n_read]

\* EndPoint::pipe with the write taking n_written of the first size bytes of
\* buf (0 for WouldBlock and for any other error): the stream written to.
pipe(buf, size, dest, n_written) ==
    [dest EXCEPT !.written = @ \o SubSeq(buf, 1, Min(n_written, size))]

\* Faulty reads that fill a slice as long as the whole buffer, whatever
\* buffer_index is.
TickIOWholeBuffer(c, supply) ==
    LET free(p) == IF is_readable(c.points[p].state)
                   THEN Min(supply, BufferSize)
                   ELSE 0
        held(p, n) == c.points[p].buffer_index + n
        room(from, to, n) == IF is_writable(c.points[to].state) THEN held(from, n) ELSE 0
    IN  UNION {UNION {[rf : {rf}, rb : {rb},
                       wb : 0..room(Front, Back, rf), wf : 0..room(Back, Front, rb)] :
                      rb \in 0..Min(free(Back), supply - rf)} :
               rf \in 0..free(Front)}

\* What the sockets do during one tick(): rf and rb are the bytes the reads of
\* the front and of the back socket return, wb and wf the bytes the writes to
\* the back and to the front socket take.  A read fills at most the free rest
\* of the buffer; supply bounds the bytes the peers still send.
TickIO(c, supply) ==
    LET free(p) == IF is_readable(c.points[p].state)
                   THEN Min(supply, BufferSize - c.points[p].buffer_index)
                   ELSE 0
        held(p, n) == c.points[p].buffer_index + n
        room(from, to, n) == IF is_writable(c.points[to].state) THEN held(from, n) ELSE 0
    IN  UNION {UNION {[rf : {rf}, rb : {rb},
                       wb : 0..room(Front, Back, rf), wf : 0..room(Back, Front, rb)] :
                      rb \in 0..Min(free(Back), supply - rf)} :
               rf \in 0..free(Front)}

\* The first loop of Connection::tick: every readable point absorbs and has
\* READABLE removed.
TickAbsorb(c, io) ==
    LET rd(p, n) == IF is_readable(c.points[p].state)
                    THEN [absorb(c.points[p], n) EXCEPT !.state = @ \ {"R"}]
                    ELSE c.points[p]
    IN  [c EXCEPT !.points = [p \in {Front, Back} |->
                                 IF p = Front THEN rd(Front, io.rf) ELSE rd(Back, io.rb)]]

\* One direction of Connection::tick: from's buffer is piped to to's stream
\* when it holds bytes and to is writable; buffer_index is then reset whatever
\* the write took.
TickPipe(c, from, to, n_written) ==
    IF c.points[from].buffer_index > 0 /\ is_writable(c.points[to].state)
    THEN [conn |-> [c EXCEPT !.points[to].stream =
                                 pipe(c.points[from].buffer,
                                      c.points[from].buffer_index, @, n_written),
                             !.points[from].buffer_index = 0,
                             !.points[from].buffer = <<>>],
          sended |-> TRUE]
    ELSE [conn |-> c, sended |-> FALSE]

\* Connection::tick: the connection afterwards and the value returned.
tick(c, io) ==
    LET a  == TickAbsorb(c, io)
        fb == TickPipe(a, Front, Back, io.wb)
        bf == TickPipe(fb.conn, Back, Front, io.wf)
    IN  [conn |-> bf.conn, sended |-> fb.sended \/ bf.sended]

(***************************************************************************)
(* Backend router and frontend.  Their code is not among the source files  *)
(* (backend.rs and frontend.rs there belong to an older two-thread         *)
(* design); they follow section 3 of the specification: next_target        *)
(* returns targets[cursor] and advances the cursor modulo the length.      *)
(* calls counts the calls made on the router (a history counter).          *)
(***************************************************************************)
Addrs == {"P1", "P2"}

TargetLists == {<<"T1", "T2">>, <<"T3">>}

\* Backend::new(target_addrs)
NewBackend(target_addrs) ==
    [target_addrs |-> target_addrs, cursor |-> 0, calls |-> 0]

\* Frontend::new(listen_addr, vec![backend])
NewFrontend(listen_addr, target_addrs) ==
    [listen_addr |-> listen_addr, backend |-> NewBackend(target_addrs)]

\* Backend::decide_target: the target returned and the router afterwards.
decide_target(b) ==
    [target  |-> b.target_addrs[b.cursor + 1],
     backend |-> [b EXCEPT !.cursor = (@ + 1) % Len(b.target_addrs),
                           !.calls  = @ + 1]]

(***************************************************************************)
(* The state of the dispatcher.                                            *)
(***************************************************************************)
VARIABLES
    pc,                          \* where Driver::run is: "poll", "dispatch", "panicked"
    events,                      \* raw tokens of the current batch not yet handled
    poll,                        \* armed sources: raw token -> "edge" or "oneshot"
    to_reregister,               \* Driver.to_reregister
    incoming_connections,        \* Driver.incoming_connections: slot -> Connection
    outgoing_connections_token,  \* Driver.outgoing_connections_token: slot -> 0 (None) or i (Some(i))
    listeners,                   \* DriverState.listeners: slot -> Listener
    listeners_to_remove,         \* DriverState.listeners_to_remove
    config,                      \* the configuration last handed to reconfigure, and how that ended
    env,                         \* what the environment may still do: accepts, bytes, reconfs;
                                 \* lready: the readiness a listener's event may come with;
                                 \* since: the configurations applied since the last
                                 \* post-batch step, in the runs that trace it
    last,                        \* the handler that ran last and what it was given
    tok,                         \* the token codec's inputs and results
    inbox,                       \* messages sent to the dispatcher and not received
    frontend_handler,            \* FrontendHandler of the two-thread design (frontend.rs)
    backend_handler,             \* BackendHandler of the two-thread design (backend.rs)
    channels,                    \* the messages sent to either thread and not handled
    threads                      \* what the clients may still do, the panic of a thread
                                 \* and the handler that ran last

vars == <<pc, events, poll, to_reregister, incoming_connections,
          outgoing_connections_token, listeners, listeners_to_remove,
          config, env, last, tok, inbox,
          frontend_handler, backend_handler, channels, threads>>

thread_vars == <<frontend_handler, backend_handler, channels, threads>>

driver_vars == <<pc, events, poll, to_reregister, incoming_connections,
                 outgoing_connections_token, listeners, listeners_to_remove,
                 config, env, last, inbox>>

\* Option<IncomingToken>::None in the outgoing slab.
NoneToken == 0

\* Slab::new_starting_at(Token(1), capacity): the slots are 1..capacity.
Slots(capacity) == 1..capacity

\* Slab::insert: the slot a value goes to, 0 when the slab is full.
VacantSlot(slab, capacity) ==
    IF Slots(capacity) \ DOMAIN slab = {} THEN 0
    ELSE CHOOSE s \in Slots(capacity) \ DOMAIN slab :
             \A t \in Slots(capacity) \ DOMAIN slab : s <= t

\* how tells how a listener event or a reconfiguration ended, and in the runs
\* that trace it that the read of a connection's event returned nothing or
\* that the event's handler removed the pair; bound are the
\* addresses on which bind succeeded during a reconfiguration; ready is the
\* readiness the event of a connection's socket came with, kept in the runs
\* that trace it (env.trace); since is env.since as a post-batch step
\* found it.
NoLast == [op |-> "none", token |-> 0, ticked |-> FALSE, sended |-> FALSE,
           how |-> "", bound |-> {}, ready |-> {}, since |-> 0]

NoTok == [phase |-> "off", a |-> [variant |-> "Listener", slot |-> 0],
          b |-> [variant |-> "Listener", slot |-> 0],
          raw_a |-> 0, raw_b |-> 0,
          out_a |-> [variant |-> "Listener", slot |-> 0]]

\* Driver::new(DriverState::new(..)): empty slabs, nothing registered.
InitDriver ==
    /\ pc = "poll"
    /\ events = {}
    /\ poll = <<>>
    /\ to_reregister = {}
    /\ incoming_connections = <<>>
    /\ outgoing_connections_token = <<>>
    /\ listeners = <<>>
    /\ listeners_to_remove = {}
    /\ config = [frontends |-> {}, result |-> "none"]
    /\ last = NoLast
    /\ inbox = <<>>

\* A faulty removal that leaves the outgoing slot occupied.
remove_incoming_only(ic, oc, token) ==
    IF token \notin DOMAIN ic
    THEN [panic |-> TRUE, incoming |-> ic, outgoing |-> oc]
    ELSE [panic |-> FALSE, incoming |-> Without(ic, token), outgoing |-> oc]

(***************************************************************************)
(* Driver::remove_connection: both slabs afterwards; panic when one of the *)
(* two expect() calls fails.                                               *)
(***************************************************************************)
remove_connection(ic, oc, token) ==
    IF token \notin DOMAIN ic
    THEN [panic |-> TRUE, incoming |-> ic, outgoing |-> oc]
    ELSE IF outgoing_token(ic[token]) \notin DOMAIN oc
         THEN [panic |-> TRUE, incoming |-> Without(ic, token), outgoing |-> oc]
         ELSE [panic |-> FALSE, incoming |-> Without(ic, token),
               outgoing |-> Without(oc, outgoing_token(ic[token]))]

\* The sockets of connection c, stored at slot token, as the poller names them.
ConnTokens(c, token) ==
    {IncomingAsRawToken(token), OutgoingAsRawToken(outgoing_token(c))}

\* The poller without the sources in ts (a closed socket leaves the poller).
Disarm(p, ts) == [t \in DOMAIN p \ ts |-> p[t]]

\* The poller with the sources in ts (re)registered edge-triggered one-shot.
ArmOneshot(p, ts) == [t \in DOMAIN p \cup ts |-> IF t \in ts THEN "oneshot" ELSE p[t]]

(***************************************************************************)
(* Driver::incoming_ready(token, ready) with the sockets doing io.         *)
(* The result: the slabs, the dirty set and whether the handler panicked.  *)
(***************************************************************************)
incoming_ready(ic, oc, dirty, token, ready, io) ==
    IF token \notin DOMAIN ic
    THEN [panic |-> FALSE, incoming |-> ic, outgoing |-> oc, dirty |-> dirty,
          ticked |-> FALSE, sended |-> FALSE, removed |-> FALSE]
    ELSE LET r       == tick(ConnIncomingReady(ic[token], ready), io)
             ticked  == [ic EXCEPT ![token] = r.conn]
             remove  == ~r.sended /\ (is_incoming_closed(r.conn) \/ is_outgoing_closed(r.conn))
             rm      == remove_connection(ticked, oc, token)
         IN  IF remove
             THEN [panic |-> rm.panic, incoming |-> rm.incoming, outgoing |-> rm.outgoing,
                   dirty |-> dirty, ticked |-> TRUE, sended |-> r.sended,
                   removed |-> TRUE]
             ELSE [panic |-> FALSE, incoming |-> ticked, outgoing |-> oc,
                   dirty |-> IF r.sended \/ is_readable(ready)
                             THEN dirty \cup {token} ELSE dirty,
                   ticked |-> TRUE, sended |-> r.sended, removed |-> FALSE]

\* A faulty Driver::outgoing_ready that frees the outgoing slot of a closed
\* pair instead of setting it to None.
outgoing_ready_frees_slot(ic, oc, dirty, token, ready, io) ==
    IF token \notin DOMAIN oc \/ (token \in DOMAIN oc /\ oc[token] = NoneToken)
    THEN [panic |-> FALSE, incoming |-> ic, outgoing |-> oc, dirty |-> dirty,
          ticked |-> FALSE, sended |-> FALSE, removed |-> FALSE]
    ELSE IF oc[token] \notin DOMAIN ic
    THEN [panic |-> FALSE, incoming |-> ic, outgoing |-> oc, dirty |-> dirty,
          ticked |-> FALSE, sended |-> FALSE, removed |-> FALSE]
    ELSE LET incoming_token == oc[token]
             r      == tick(ConnOutgoingReady(ic[incoming_token], ready), io)
             ticked == [ic EXCEPT ![incoming_token] = r.conn]
             remove == ~r.sended /\ is_outgoing_closed(r.conn)
         IN  [panic |-> FALSE, incoming |-> ticked,
              outgoing |-> IF remove THEN Without(oc, token) ELSE oc,
              dirty |-> IF ~remove /\ r.sended THEN dirty \cup {incoming_token} ELSE dirty,
              ticked |-> TRUE, sended |-> r.sended, removed |-> remove]

\* A faulty Driver::outgoing_ready that frees an outgoing slot it finds
\* holding None.
outgoing_ready_frees_none(ic, oc, dirty, token, ready, io) ==
    IF token \notin DOMAIN oc
    THEN [panic |-> FALSE, incoming |-> ic, outgoing |-> oc, dirty |-> dirty,
          ticked |-> FALSE, sended |-> FALSE, removed |-> FALSE]
    ELSE IF oc[token] = NoneToken
    THEN [panic |-> FALSE, incoming |-> ic, outgoing |-> Without(oc, token),
          dirty |-> dirty, ticked |-> FALSE, sended |-> FALSE, removed |-> FALSE]
    ELSE IF oc[token] \notin DOMAIN ic
    THEN [panic |-> FALSE, incoming |-> ic, outgoing |-> oc, dirty |-> dirty,
          ticked |-> FALSE, sended |-> FALSE, removed |-> FALSE]
    ELSE LET incoming_token == oc[token]
             r      == tick(ConnOutgoingReady(ic[incoming_token], ready), io)
             ticked == [ic EXCEPT ![incoming_token] = r.conn]
             remove == ~r.sended /\ is_outgoing_closed(r.conn)
         IN  [panic |-> FALSE, incoming |-> ticked,
              outgoing |-> IF remove THEN [oc EXCEPT ![token] = NoneToken] ELSE oc,
              dirty |-> IF ~remove /\ r.sended THEN dirty \cup {incoming_token} ELSE dirty,
              ticked |-> TRUE, sended |-> r.sended, removed |-> remove]

(***************************************************************************)
(* Driver::outgoing_ready(token, ready) with the sockets doing io.         *)
(***************************************************************************)
outgoing_ready(ic, oc, dirty, token, ready, io) ==
    IF token \notin DOMAIN oc \/ (token \in DOMAIN oc /\ oc[token] = NoneToken)
    THEN [panic |-> FALSE, incoming |-> ic, outgoing |-> oc, dirty |-> dirty,
          ticked |-> FALSE, sended |-> FALSE, removed |-> FALSE]
    ELSE IF oc[token] \notin DOMAIN ic
    THEN [panic |-> FALSE, incoming |-> ic, outgoing |-> oc, dirty |-> dirty,
          ticked |-> FALSE, sended |-> FALSE, removed |-> FALSE]
    ELSE LET incoming_token == oc[token]
             r      == tick(ConnOutgoingReady(ic[incoming_token], ready), io)
             ticked == [ic EXCEPT ![incoming_token] = r.conn]
             remove == ~r.sended /\ is_outgoing_closed(r.conn)
         IN  [panic |-> FALSE, incoming |-> ticked,
              outgoing |-> IF remove THEN [oc EXCEPT ![token] = NoneToken] ELSE oc,
              dirty |-> IF ~remove /\ r.sended THEN dirty \cup {incoming_token} ELSE dirty,
              ticked |-> TRUE, sended |-> r.sended, removed |-> remove]

(***************************************************************************)
(* Driver::listener_ready(token, event).  accept_ok and connect_ok are the *)
(* results of listener.accept() and of TcpStream::connect(&target).        *)
(***************************************************************************)
\* A faulty routing step that always takes the first target of the list.
RouteToFirst(listener) ==
    [decide_target(listener.frontend.backend) EXCEPT
         !.target = listener.frontend.backend.target_addrs[1]]

\* Lines 50-51: the target of one accepted connection, and the router after.
RouteTarget(listener) == decide_target(listener.frontend.backend)

\* A faulty connect-error path that has taken an outgoing slot before the
\* connect and returns without giving it back.
ConnectFailedSlotKept(same, routed) ==
    [same EXCEPT !.listeners = routed, !.accepted = TRUE, !.how = "connect_err",
                 !.outgoing = IF VacantSlot(same.outgoing, ConnectionsCap) = 0 THEN @
                              ELSE With(@, VacantSlot(same.outgoing, ConnectionsCap),
                                        NoneToken)]

\* Lines 53-59: Err(e) of TcpStream::connect: the handler returns; the routing
\* step made before the connect stays, the accepted socket goes out of scope.
ConnectFailed(same, routed) ==
    [same EXCEPT !.listeners = routed, !.accepted = TRUE, !.how = "connect_err"]

listener_ready(ls, ic, oc, p, token, event, accept_ok, connect_ok) ==
    LET same == [panic |-> FALSE, listeners |-> ls, incoming |-> ic,
                 outgoing |-> oc, poll |-> p, accepted |-> FALSE, how |-> ""]
    IN
    IF ~is_readable(event) THEN [same EXCEPT !.panic = TRUE, !.how = "assert"]
    ELSE IF token \notin DOMAIN ls THEN [same EXCEPT !.how = "unknown"]
    ELSE IF ~accept_ok THEN [same EXCEPT !.how = "accept_err"]
    ELSE
    LET route   == RouteTarget(ls[token])
        routed  == [ls EXCEPT ![token].frontend.backend = route.backend]
        out_tok == VacantSlot(oc, ConnectionsCap)
        in_tok == VacantSlot(ic, ConnectionsCap)
        conn    == NewConnection(ls[token].listen_addr, route.target, out_tok)
    IN
    IF ~connect_ok
    THEN ConnectFailed(same, routed)
    ELSE IF out_tok = 0
    THEN [same EXCEPT !.panic = TRUE, !.listeners = routed, !.accepted = TRUE,
                      !.how = "full"]
    ELSE IF in_tok = 0
    THEN [same EXCEPT !.panic = TRUE, !.listeners = routed, !.accepted = TRUE,
                      !.how = "full",
                      !.outgoing = With(oc, out_tok, NoneToken)]
    ELSE [panic     |-> FALSE,
          listeners |-> routed,
          incoming  |-> With(ic, in_tok, conn),
          outgoing  |-> With(oc, out_tok, in_tok),
          poll      |-> ArmOneshot(p, ConnTokens(conn, in_tok)
                                       \cup {ListenerAsRawToken(token)}),
          accepted  |-> TRUE,
          how       |-> "paired"]

\* A faulty post-batch step that re-registers only the connections whose
\* listen address still has a listener.
\* A faulty Driver::tick that re-registers only the incoming socket of a
\* dirty connection.
driver_tick_front_only(ic, ls, p, dirty, to_remove) ==
    LET rereg == {IncomingAsRawToken(t) : t \in dirty \cap DOMAIN ic}
    IN  [panic     |-> to_remove \ DOMAIN ls # {},
         listeners |-> [t \in DOMAIN ls \ to_remove |-> ls[t]],
         poll      |-> Disarm(ArmOneshot(p, rereg),
                              {ListenerAsRawToken(t) : t \in to_remove})]

driver_tick_listened(ic, ls, p, dirty, to_remove) ==
    LET kept  == {t \in dirty \cap DOMAIN ic :
                     ic[t].points[Front].stream.addr \in {ls[l].listen_addr : l \in DOMAIN ls}}
        rereg == UNION {ConnTokens(ic[t], t) : t \in kept}
    IN  [panic     |-> to_remove \ DOMAIN ls # {},
         listeners |-> [t \in DOMAIN ls \ to_remove |-> ls[t]],
         poll      |-> Disarm(ArmOneshot(p, rereg),
                              {ListenerAsRawToken(t) : t \in to_remove})]

\* A faulty Driver::tick that removes every listener of the slab.
driver_tick_drops_listeners(ic, ls, p, dirty, to_remove) ==
    LET rereg == UNION {ConnTokens(ic[t], t) : t \in dirty \cap DOMAIN ic}
    IN  [panic     |-> to_remove \ DOMAIN ls # {},
         listeners |-> <<>>,
         poll      |-> Disarm(ArmOneshot(p, rereg),
                              {ListenerAsRawToken(t) : t \in DOMAIN ls})]

(***************************************************************************)
(* Driver::tick, the step after a batch: re-register the sockets of the    *)
(* dirty connections that still exist, then remove the listeners named in  *)
(* listeners_to_remove (unwrap: panic when one is not in the slab).        *)
(***************************************************************************)
driver_tick(ic, ls, p, dirty, to_remove) ==
    LET rereg == UNION {ConnTokens(ic[t], t) : t \in dirty \cap DOMAIN ic}
    IN  [panic     |-> to_remove \ DOMAIN ls # {},
         listeners |-> [t \in DOMAIN ls \ to_remove |-> ls[t]],
         poll      |-> Disarm(ArmOneshot(p, rereg),
                              {ListenerAsRawToken(t) : t \in to_remove})]

(***************************************************************************)
(* The actions of the dispatcher: Driver::run.                             *)
(***************************************************************************)
ZeroIO == [rf |-> 0, rb |-> 0, wb |-> 0, wf |-> 0]

\* poll.poll(events, None): a batch of events of armed sources; a one-shot
\* source is disarmed by its event.
Poll ==
    /\ pc = "poll"
    /\ \E batch \in SUBSET DOMAIN poll :
          /\ batch # {}
          /\ Cardinality(batch) <= MaxBatch
          /\ events' = batch
          /\ poll' = Disarm(poll, {t \in batch : poll[t] = "oneshot"})
    /\ pc' = "dispatch"
    /\ last' = NoLast
    /\ UNCHANGED <<to_reregister, incoming_connections, outgoing_connections_token,
                   listeners, listeners_to_remove, config, env, tok, inbox, thread_vars>>

\* TokenType::Listener(token) => self.listener_ready(poll, token, event.readiness())
ListenerEvent ==
    /\ pc = "dispatch"
    /\ \E t \in events, event \in env.lready,
          accept_ok \in BOOLEAN, connect_ok \in BOOLEAN :
          /\ from_raw_token(t).variant = "Listener"
          /\ accept_ok => env.accepts > 0
          /\ ~accept_ok => connect_ok
          /\ LET token == from_raw_token(t).slot
                 r == listener_ready(listeners, incoming_connections,
                                     outgoing_connections_token, poll, token,
                                     event, accept_ok, connect_ok)
             IN  /\ events' = events \ {t}
                 /\ pc' = IF r.panic THEN "panicked" ELSE "dispatch"
                 /\ listeners' = r.listeners
                 /\ incoming_connections' = r.incoming
                 /\ outgoing_connections_token' = r.outgoing
                 /\ poll' = r.poll
                 /\ env' = IF r.accepted THEN [env EXCEPT !.accepts = @ - 1] ELSE env
                 /\ last' = [NoLast EXCEPT !.op = "listener", !.token = token,
                                          !.how = r.how]
    /\ UNCHANGED <<to_reregister, listeners_to_remove, config, tok, inbox, thread_vars>>

\* TokenType::Incoming(token) => self.incoming_ready(token, event.readiness())
IncomingEvent ==
    /\ pc = "dispatch"
    /\ \E t \in events, ready \in ReadyValues :
          /\ from_raw_token(t).variant = "Incoming"
          /\ LET token == from_raw_token(t).slot
                 ios == IF token \in DOMAIN incoming_connections
                        THEN TickIO(ConnIncomingReady(incoming_connections[token], ready),
                                    env.bytes)
                        ELSE {ZeroIO}
             IN  \E io \in ios :
                   LET r == incoming_ready(incoming_connections,
                                           outgoing_connections_token,
                                           to_reregister, token, ready, io)
                   IN  /\ events' = events \ {t}
                       /\ pc' = IF r.panic THEN "panicked" ELSE "dispatch"
                       /\ incoming_connections' = r.incoming
                       /\ outgoing_connections_token' = r.outgoing
                       /\ to_reregister' = r.dirty
                       /\ poll' = Disarm(poll,
                                     UNION {ConnTokens(incoming_connections[i], i) :
                                            i \in DOMAIN incoming_connections
                                                  \ DOMAIN r.incoming})
                       /\ env' = [env EXCEPT !.bytes = @ - (io.rf + io.rb)]
                       /\ last' = [NoLast EXCEPT !.op = "incoming", !.token = token,
                                                 !.how = IF ~env.trace THEN ""
                                                         ELSE IF r.removed
                                                         THEN IF outgoing_connections_token[
                                                                    outgoing_token(
                                                                      incoming_connections[token])]
                                                                   = NoneToken
                                                              THEN "removed_none"
                                                              ELSE "removed"
                                                         ELSE IF /\ r.ticked
                                                                 /\ is_readable(ready)
                                                                 /\ io.rf = 0
                                                         THEN "wouldblock" ELSE "",
                                                 !.ticked = r.ticked,
                                                 !.sended = r.sended,
                                                 !.ready = IF env.trace THEN ready
                                                           ELSE {}]
    /\ UNCHANGED <<listeners, listeners_to_remove, config, tok, inbox, thread_vars>>

\* TokenType::Outgoing(token) => self.outgoing_ready(token, event.readiness())
OutgoingEvent ==
    /\ pc = "dispatch"
    /\ \E t \in events, ready \in ReadyValues :
          /\ from_raw_token(t).variant = "Outgoing"
          /\ LET token == from_raw_token(t).slot
                 oc  == outgoing_connections_token
                 ios == IF /\ token \in DOMAIN oc
                           /\ oc[token] \in DOMAIN incoming_connections
                        THEN TickIO(ConnOutgoingReady(incoming_connections[oc[token]], ready),
                                    env.bytes)
                        ELSE {ZeroIO}
             IN  \E io \in ios :
                   LET r == outgoing_ready(incoming_connections, oc,
                                           to_reregister, token, ready, io)
                   IN  /\ events' = events \ {t}
                       /\ pc' = IF r.panic THEN "panicked" ELSE "dispatch"
                       /\ incoming_connections' = r.incoming
                       /\ outgoing_connections_token' = r.outgoing
                       /\ to_reregister' = r.dirty
                       /\ env' = [env EXCEPT !.bytes = @ - (io.rf + io.rb)]
                       /\ last' = [NoLast EXCEPT !.op = "outgoing", !.token = token,
                                                 !.how = IF /\ env.trace /\ r.ticked
                                                            /\ is_readable(ready)
                                                            /\ io.rb = 0
                                                         THEN "wouldblock" ELSE "",
                                                 !.ticked = r.ticked,
                                                 !.sended = r.sended,
                                                 !.ready = IF env.trace THEN ready
                                                           ELSE {}]
    /\ UNCHANGED <<poll, listeners, listeners_to_remove, config, tok, inbox, thread_vars>>

\* self.tick(poll), once the batch is handled.
Tick ==
    /\ pc = "dispatch"
    /\ events = {}
    /\ LET r == driver_tick(incoming_connections, listeners, poll,
                            to_reregister, listeners_to_remove)
       IN  /\ pc' = IF r.panic THEN "panicked" ELSE "poll"
           /\ listeners' = r.listeners
           /\ poll' = r.poll
    /\ to_reregister' = {}
    /\ listeners_to_remove' = {}
    /\ last' = [NoLast EXCEPT !.op = "tick", !.since = env.since]
    /\ env' = [env EXCEPT !.since = 0]
    /\ UNCHANGED <<events, incoming_connections, outgoing_connections_token,
                   config, tok, inbox, thread_vars>>

(***************************************************************************)
(* DriverState::reconfigure (driver_state.rs).  A configuration is the set *)
(* of its frontends, each with its resolved listen address and the target  *)
(* addresses of the backend it names; every frontend names a backend of    *)
(* its own.  order is the order in which the frontends map is iterated,    *)
(* add_order the order in which listeners_to_add is iterated, and busy the *)
(* addresses on which TcpListener::bind fails for a reason outside the     *)
(* process.  bind also fails on an address a listener of the slab holds.   *)
(***************************************************************************)
\* Frontends of one configuration in the model.
MaxFrontends == 2

FrontendConfigs == [listen_addr : Addrs, target_addrs : TargetLists]

Configs == {c \in SUBSET FrontendConfigs : Cardinality(c) <= MaxFrontends}

\* The sequences that list every element of S once.
Orders(S) == {f \in [1..Cardinality(S) -> S] : Range(f) = S}

ListenAddrs(ls) == {ls[t].listen_addr : t \in DOMAIN ls}

\* listeners_by_addr: the listener the map holds for address a.
ListenerAt(ls, a) ==
    CHOOSE t \in DOMAIN ls :
        /\ ls[t].listen_addr = a
        /\ \A u \in DOMAIN ls : ls[u].listen_addr = a => u <= t

\* A faulty rebind that closes the socket and opens a new one.
RebindReopened(listener, frontend) ==
    [listener EXCEPT !.frontend = frontend, !.listener.opened = @ + 1]

\* Occupied(e): e.get_mut().frontend = frontend.clone().  The listener keeps
\* its socket, its address and its token.
Rebind(listener, frontend) == [listener EXCEPT !.frontend = frontend]

\* Lines 68-80: the loop over the frontends.  st.remaining are the addresses
\* still in listeners_by_addr, st.to_add is listeners_to_add, st.bound the
\* addresses on which this call has bound a listener so far.
RECURSIVE ReconfigureDiff(_, _, _)
ReconfigureDiff(order, i, st) ==
    IF i > Len(order) THEN st
    ELSE LET a  == order[i].listen_addr
             fe == NewFrontend(a, order[i].target_addrs)
         IN  IF a \in st.remaining
             THEN ReconfigureDiff(order, i + 1,
                      [st EXCEPT !.listeners[ListenerAt(st.listeners, a)] = Rebind(@, fe),
                                 !.remaining = @ \ {a}])
             ELSE ReconfigureDiff(order, i + 1,
                      [st EXCEPT !.to_add = With(@, a, fe)])

\* A faulty loop over listeners_to_add whose bind succeeds on an address a
\* listener of the slab holds.
RECURSIVE ReconfigureAddShared(_, _, _, _, _)
ReconfigureAddShared(addrs, i, st, busy, epoch) ==
    IF i > Len(addrs) THEN st
    ELSE LET a     == addrs[i]
             token == VacantSlot(st.listeners, ListenersCap)
         IN  IF a \in busy \/ token = 0
             THEN [st EXCEPT !.result = "err"]
             ELSE ReconfigureAddShared(addrs, i + 1,
                      [st EXCEPT !.listeners =
                                     With(@, token,
                                          [listener    |-> [addr |-> a, opened |-> epoch],
                                           listen_addr |-> a,
                                           frontend    |-> st.to_add[a],
                                           token       |-> token]),
                                 !.poll = With(@, ListenerAsRawToken(token), "edge"),
                                 !.bound = @ \cup {a}],
                      busy, epoch)

\* Lines 87-105: the loop over listeners_to_add; it returns at the first bind
\* or insert that fails.
RECURSIVE ReconfigureAdd(_, _, _, _, _)
ReconfigureAdd(addrs, i, st, busy, epoch) ==
    IF i > Len(addrs) THEN st
    ELSE LET a     == addrs[i]
             token == VacantSlot(st.listeners, ListenersCap)
         IN  IF a \in busy \cup ListenAddrs(st.listeners) \/ token = 0
             THEN [st EXCEPT !.result = "err"]
             ELSE ReconfigureAdd(addrs, i + 1,
                      [st EXCEPT !.listeners =
                                     With(@, token,
                                          [listener    |-> [addr |-> a, opened |-> epoch],
                                           listen_addr |-> a,
                                           frontend    |-> st.to_add[a],
                                           token       |-> token]),
                                 !.poll = With(@, ListenerAsRawToken(token), "edge"),
                                 !.bound = @ \cup {a}],
                      busy, epoch)

\* A faulty removal loop that removes no listener.
ReconfigureKeep(st) == st

\* Lines 107-114: the loop over listeners_to_remove, reached when no bind failed.
ReconfigureRemove(st) ==
    LET to_remove == {ListenerAt(st.listeners, a) : a \in st.remaining}
    IN  [st EXCEPT !.listeners = [t \in DOMAIN @ \ to_remove |-> @[t]],
                   !.poll = Disarm(@, {ListenerAsRawToken(t) : t \in to_remove})]

\* listeners_to_add once the loop over the frontends is done.
ListenersToAdd(ls, order) ==
    ReconfigureDiff(order, 1,
        [listeners |-> ls, poll |-> <<>>, remaining |-> ListenAddrs(ls),
         to_add |-> <<>>, bound |-> {}, result |-> "ok"]).to_add

\* A faulty reconfigure that skips the loop over listeners_to_add.
reconfigure_without_add(ls, p, order, add_order, busy, epoch) ==
    ReconfigureRemove(
        ReconfigureDiff(order, 1,
            [listeners |-> ls, poll |-> p, remaining |-> ListenAddrs(ls),
             to_add |-> <<>>, bound |-> {}, result |-> "ok"]))

\* A faulty reconfigure that undoes its binds when one of them fails.
reconfigure_rolled_back(ls, p, order, add_order, busy, epoch) ==
    LET diff  == ReconfigureDiff(order, 1,
                     [listeners |-> ls, poll |-> p, remaining |-> ListenAddrs(ls),
                      to_add |-> <<>>, bound |-> {}, result |-> "ok"])
        added == ReconfigureAdd(add_order, 1, diff, busy, epoch)
    IN  IF added.result = "err"
        THEN [added EXCEPT !.listeners = diff.listeners, !.poll = diff.poll]
        ELSE ReconfigureRemove(added)

\* A faulty reconfigure that runs the removal loop after a failed bind too.
reconfigure_remove_on_error(ls, p, order, add_order, busy, epoch) ==
    LET diff  == ReconfigureDiff(order, 1,
                     [listeners |-> ls, poll |-> p, remaining |-> ListenAddrs(ls),
                      to_add |-> <<>>, bound |-> {}, result |-> "ok"])
    IN  ReconfigureRemove(ReconfigureAdd(add_order, 1, diff, busy, epoch))

reconfigure(ls, p, order, add_order, busy, epoch) ==
    LET diff  == ReconfigureDiff(order, 1,
                     [listeners |-> ls, poll |-> p, remaining |-> ListenAddrs(ls),
                      to_add |-> <<>>, bound |-> {}, result |-> "ok"])
        added == ReconfigureAdd(add_order, 1, diff, busy, epoch)
    IN  IF added.result = "err" THEN added ELSE ReconfigureRemove(added)

\* What to_socket_addrs can give for the names of a configuration: one
\* address for every name, an error for some name, or several addresses for
\* some name.
Resolutions == {"one", "none", "many"}

\* resolve_name over the names of a configuration, as make_backend and
\* make_frontend use it at lines 51-57: try! hands an error of to_socket_addrs
\* on (make_backend turns it into its own NotFound error), and assert_eq!
\* panics when a name has more or fewer than one address.
resolve_name(names) ==
    CASE names = "one"  -> "ok"
      [] names = "none" -> "resolve_err"
      [] names = "many" -> "panic"

\* A configuration handed to the dispatcher between two batches.  env.configs
\* are the configurations the run may apply, env.dns what the resolver may
\* answer, env.busy the addresses that may be held by another process.
\* last.how tells how the call ended, and last.bound keeps the addresses a
\* failed call had bound before it failed.
Reconfigure ==
    /\ pc = "poll"
    /\ env.reconfs > 0
    /\ \E cfg \in env.configs, names \in env.dns :
         /\ (cfg = {}) => (names = "one")
         /\ IF resolve_name(names) = "ok"
            THEN \E order \in Orders(cfg) :
                   \E add_order \in Orders(DOMAIN ListenersToAdd(listeners, order)),
                      busy \in SUBSET (env.busy \cap DOMAIN ListenersToAdd(listeners, order)) :
                      LET r == reconfigure(listeners, poll, order, add_order, busy, env.reconfs)
                      IN  /\ listeners' = r.listeners
                          /\ poll' = r.poll
                          /\ config' = [frontends |-> cfg, result |-> r.result]
                          /\ last' = [NoLast EXCEPT !.op = "reconfigure", !.how = r.result,
                                                    !.bound = IF r.result = "err"
                                                              THEN r.bound ELSE {}]
                          /\ pc' = pc
            ELSE /\ UNCHANGED <<listeners, poll>>
                 /\ config' = [frontends |-> cfg, result |-> resolve_name(names)]
                 /\ last' = [NoLast EXCEPT !.op = "reconfigure", !.how = resolve_name(names)]
                 /\ pc' = IF resolve_name(names) = "panic" THEN "panicked" ELSE pc
    /\ env' = [env EXCEPT !.reconfs = @ - 1,
                          !.since = IF env.trace /\ config'.result = "ok"
                                    THEN @ + 1 ELSE @]
    /\ UNCHANGED <<events, to_reregister, incoming_connections,
                   outgoing_connections_token, listeners_to_remove, tok, inbox, thread_vars>>

\* The messages of the dispatcher's channel (enum DriverMessage).
DriverMessages == {"Shutdown", "Reconfigure"}

\* Another thread sends a message to the dispatcher: sender.send(..).  The
\* message waits in the channel; Driver::run has no step that receives it.
SendMessage ==
    /\ env.sends > 0
    /\ pc # "panicked"
    /\ \E m \in DriverMessages : inbox' = Append(inbox, m)
    /\ env' = [env EXCEPT !.sends = @ - 1]
    /\ UNCHANGED <<pc, events, poll, to_reregister, incoming_connections,
                   outgoing_connections_token, listeners, listeners_to_remove,
                   config, last, tok, thread_vars>>

(***************************************************************************)
(* The token codec applied to two tokens a and b: encode both, decode a.   *)
(***************************************************************************)
\* Every token of the model's word: a variant and a slot of WordBits bits.
Tokens == [variant : Variants, slot : 0..(WordMod - 1)]

\* The slot fits in the word less the two tag bits.
Fits(t) == t.slot < Pow2(WordBits - 2)

Encode ==
    /\ tok.phase = "in"
    /\ tok' = [tok EXCEPT !.phase = "raw",
                          !.raw_a = as_raw_token(tok.a),
                          !.raw_b = as_raw_token(tok.b)]
    /\ UNCHANGED <<driver_vars, thread_vars>>

Decode ==
    /\ tok.phase = "raw"
    /\ tok' = [tok EXCEPT !.phase = "out", !.out_a = from_raw_token(tok.raw_a)]
    /\ UNCHANGED <<driver_vars, thread_vars>>

(***************************************************************************)
(* The two-thread design (frontend.rs, backend.rs, messages.rs).  The      *)
(* frontend thread accepts clients and forwards the events of their        *)
(* sockets to the backend thread, which owns the connections.  A socket is *)
(* named by the number of its client, counted down.  Each thread runs an   *)
(* event loop that hands the socket events of a batch to ready() and then  *)
(* the messages of its channel to notify().  Connection of this design is  *)
(* not among the source files; what the handlers use of it follows the     *)
(* specification: a half is closed iff its readiness holds ERROR or HUP.   *)
(***************************************************************************)
\* Capacity of the slabs of both handlers (4096 in the source), scaled down.
SlabSize == 2
\* Socket events of clients that the frontend thread gets in one run.
MaxEvents == 2

\* const SERVER: Token = Token(1)
SERVER == 1

\* The readiness an event of a socket comes with.
SocketEvents == {{"R"}, {"R", "HUP"}}

\* backend_ref: None
NoRef == [token |-> 0, id |-> 0]

\* Slab::new_starting_at(Token(first), capacity), insert: the slot a value
\* goes to, 0 when the slab is full.
VacantFrom(slab, first, capacity) ==
    LET free == (first..(first + capacity - 1)) \ DOMAIN slab
    IN  IF free = {} THEN 0
        ELSE CHOOSE s \in free : \A t \in free : s <= t

\* Connection::new of the two-thread design.
NewThreadConnection(frontend_token, frontend_stream, backend_token, backend_id) ==
    [frontend_token  |-> frontend_token,
     frontend_stream |-> frontend_stream,
     backend_token   |-> backend_token,
     backend_id      |-> backend_id,
     frontend_state  |-> {},
     backend_state   |-> {}]

\* Connection::frontend_ready and Connection::backend_ready
frontend_ready(c, evs) == [c EXCEPT !.frontend_state = @ \cup evs]

backend_ready(c, evs) == [c EXCEPT !.backend_state = @ \cup evs]

is_frontend_closed(c) == c.frontend_state \cap {"ERR", "HUP"} # {}

is_backend_closed(c) == c.backend_state \cap {"ERR", "HUP"} # {}

\* The socket registered under a token of the frontend's event loop.
StreamOf(fh, token) == CHOOSE s \in DOMAIN fh.poll : fh.poll[s] = token

\* What a handler gives back: the handler afterwards, the messages it sent
\* and the panic it ended in ("" for none).
Handled(h, sent, panic) == [handler |-> h, sent |-> sent, panic |-> panic]

\* FrontendHandler::accept_socket with accept returning the socket stream
\* ("ok"), Ok(None) ("none") or an error ("err").
accept_socket(fh, accepted, stream) ==
    IF accepted # "ok" THEN Handled(fh, <<>>, "")
    ELSE LET token == VacantFrom(fh.connections, 2, SlabSize)
         IN  IF token = 0 THEN Handled(fh, <<>>, "full")
             ELSE Handled([fh EXCEPT !.connections =
                                         With(@, token, [state |-> {}, backend_ref |-> NoRef]),
                                     !.poll = With(@, stream, token)],
                          <<[type |-> "AcceptConnection", token |-> token,
                             stream |-> stream]>>,
                          "")

\* FrontendHandler::ready.  The stream of a ConnectionEvent is the socket the
\* event came from, kept to tell the connection it was sent for.
FrontendReady(fh, token, evs, accepted, stream) ==
    IF is_readable(evs) /\ token = SERVER
    THEN accept_socket(fh, accepted, stream)
    ELSE IF token > 1
    THEN IF token \notin DOMAIN fh.connections
         THEN Handled(fh, <<>>, "index")
         ELSE LET ref == fh.connections[token].backend_ref
              IN  Handled([fh EXCEPT !.connections[token].state = @ \cup evs],
                          IF ref # NoRef
                          THEN <<[type |-> "ConnectionEvent", token |-> ref.token,
                                  id |-> ref.id, events |-> evs,
                                  stream |-> StreamOf(fh, token)]>>
                          ELSE <<>>,
                          "")
    ELSE Handled(fh, <<>>, "")

\* FrontendHandler::notify
FrontendNotify(fh, msg) ==
    IF msg.type = "SocketCreated"
    THEN IF msg.frontend_token \notin DOMAIN fh.connections
         THEN Handled(fh, <<>>, "index")
         ELSE LET state == fh.connections[msg.frontend_token].state
              IN  Handled([fh EXCEPT !.connections[msg.frontend_token].backend_ref =
                                         [token |-> msg.backend_token,
                                          id |-> msg.backend_id]],
                          IF state # {}
                          THEN <<[type |-> "ConnectionEvent", token |-> msg.backend_token,
                                  id |-> msg.backend_id, events |-> state,
                                  stream |-> StreamOf(fh, msg.frontend_token)]>>
                          ELSE <<>>,
                          "")
    ELSE \* SocketClosed(frontend_token, frontend_stream)
         IF msg.stream \notin DOMAIN fh.poll
         THEN Handled(fh, <<>>, "deregister")
         ELSE IF msg.token \notin DOMAIN fh.connections
         THEN Handled([fh EXCEPT !.poll = Without(@, msg.stream)], <<>>, "index")
         ELSE Handled([fh EXCEPT !.poll = Without(@, msg.stream),
                                 !.connections = Without(@, msg.token)],
                      <<>>, "")

\* A faulty BackendHandler::remove_connection that reports the socket closed
\* and keeps the connection.
BackendRemoveKeeps(bh, token) ==
    IF token \in DOMAIN bh.connections
    THEN Handled(bh,
                 <<[type |-> "SocketClosed",
                    token |-> bh.connections[token].frontend_token,
                    stream |-> bh.connections[token].frontend_stream]>>,
                 "")
    ELSE Handled(bh, <<>>, "")

\* BackendHandler::remove_connection
BackendRemove(bh, token) ==
    IF token \in DOMAIN bh.connections
    THEN Handled([bh EXCEPT !.connections = Without(@, token),
                            !.poll = @ \ {token}],
                 <<[type |-> "SocketClosed",
                    token |-> bh.connections[token].frontend_token,
                    stream |-> bh.connections[token].frontend_stream]>>,
                 "")
    ELSE Handled(bh, <<>>, "")

\* BackendHandler::ready
BackendReady(bh, token, evs) ==
    IF token > 0
    THEN IF token \notin DOMAIN bh.connections
         THEN Handled(bh, <<>>, "index")
         ELSE LET c  == backend_ready(bh.connections[token], evs)
                  to == [bh EXCEPT !.connections[token] = c]
              IN  IF is_backend_closed(c) THEN BackendRemove(to, token)
                  ELSE Handled(to, <<>>, "")
    ELSE Handled(bh, <<>>, "")

\* BackendMessage::AcceptConnection with the connect to the target succeeding
\* or not.
AcceptConnection(bh, msg, connect_ok) ==
    IF ~connect_ok THEN Handled(bh, <<>>, "connect")
    ELSE LET backend_id    == bh.next_id
             backend_token == VacantFrom(bh.connections, 1, SlabSize)
         IN  IF backend_token = 0
             THEN Handled([bh EXCEPT !.next_id = @ + 1], <<>>, "full")
             ELSE Handled([bh EXCEPT !.next_id = @ + 1,
                                     !.connections =
                                         With(@, backend_token,
                                              NewThreadConnection(msg.token, msg.stream,
                                                                  backend_token, backend_id)),
                                     !.poll = @ \cup {backend_token}],
                          <<[type |-> "SocketCreated", frontend_token |-> msg.token,
                             backend_token |-> backend_token,
                             backend_id |-> backend_id]>>,
                          "")

\* A faulty handler of ConnectionEvent that does not compare the ids.
ConnectionEventAnyId(bh, msg) ==
    IF msg.token \in DOMAIN bh.connections
    THEN LET c  == frontend_ready(bh.connections[msg.token], msg.events)
             to == [bh EXCEPT !.connections[msg.token] = c]
         IN  IF is_frontend_closed(c) THEN BackendRemove(to, msg.token)
             ELSE Handled(to, <<>>, "")
    ELSE Handled(bh, <<>>, "")

\* BackendMessage::ConnectionEvent(backend_token, backend_id, events)
ConnectionEvent(bh, msg) ==
    IF msg.token \in DOMAIN bh.connections
    THEN IF bh.connections[msg.token].backend_id # msg.id
         THEN Handled(bh, <<>>, "")
         ELSE LET c  == frontend_ready(bh.connections[msg.token], msg.events)
                  to == [bh EXCEPT !.connections[msg.token] = c]
              IN  IF is_frontend_closed(c) THEN BackendRemove(to, msg.token)
                  ELSE Handled(to, <<>>, "")
    ELSE Handled(bh, <<>>, "")

\* BackendHandler::notify
BackendNotify(bh, msg, connect_ok) ==
    IF msg.type = "AcceptConnection"
    THEN AcceptConnection(bh, msg, connect_ok)
    ELSE ConnectionEvent(bh, msg)

\* Neither thread runs.
ThreadsOff ==
    /\ frontend_handler = [connections |-> <<>>, poll |-> <<>>, events |-> {}]
    /\ backend_handler = [connections |-> <<>>, poll |-> {}, events |-> {},
                          next_id |-> 0]
    /\ channels = [backend |-> <<>>, frontend |-> <<>>]
    /\ threads = [accepts |-> 0, events |-> 0, panic |-> "", op |-> "none",
                  msg |-> <<>>]

\* The step of a thread: who ran and, for notify, the message it handled.
Ran(op, msg) == [threads EXCEPT !.op = op, !.msg = msg]

\* The frontend's event loop polls: a batch of events of the listener and of
\* the registered sockets.
FrontendPolls ==
    /\ threads.panic = ""
    /\ frontend_handler.events = {}
    /\ LET sources == (IF threads.accepts > 0 THEN {SERVER} ELSE {})
                        \cup (IF threads.events > 0
                              THEN Range(frontend_handler.poll) ELSE {})
       IN  \E batch \in SUBSET sources :
              /\ batch # {}
              /\ Cardinality(batch) <= MaxBatch
              /\ frontend_handler' = [frontend_handler EXCEPT !.events = batch]
    /\ threads' = Ran("fpoll", <<>>)
    /\ UNCHANGED <<backend_handler, channels, driver_vars, tok>>

\* handler.ready(token, events) in the frontend thread.
FrontendEvent ==
    /\ threads.panic = ""
    /\ \E token \in frontend_handler.events, evs \in SocketEvents,
          accepted \in {"ok", "none", "err"} :
          /\ token # SERVER => accepted = "none"
          /\ (token = SERVER /\ accepted = "ok") => threads.accepts > 0
          /\ LET stream == threads.accepts
                 r == FrontendReady([frontend_handler EXCEPT !.events = @ \ {token}],
                                    token, evs, accepted, stream)
             IN  /\ frontend_handler' = r.handler
                 /\ channels' = [channels EXCEPT !.backend = @ \o r.sent]
                 /\ threads' = [Ran("fready", <<>>) EXCEPT
                                   !.panic = r.panic,
                                   !.accepts = IF token = SERVER /\ accepted = "ok"
                                               THEN @ - 1 ELSE @,
                                   !.events = IF token # SERVER /\ @ > 0
                                              THEN @ - 1 ELSE @]
    /\ UNCHANGED <<backend_handler, driver_vars, tok>>

\* handler.notify(msg) in the frontend thread: the messages are handled once
\* the socket events of the batch are.
FrontendMessage ==
    /\ threads.panic = ""
    /\ frontend_handler.events = {}
    /\ channels.frontend # <<>>
    /\ LET msg == Head(channels.frontend)
           r == FrontendNotify(frontend_handler, msg)
       IN  /\ frontend_handler' = r.handler
           /\ channels' = [channels EXCEPT !.frontend = Tail(@),
                                           !.backend = @ \o r.sent]
           /\ threads' = [Ran("fnotify", msg) EXCEPT !.panic = r.panic]
    /\ UNCHANGED <<backend_handler, driver_vars, tok>>

\* The backend's event loop polls: a batch of events of the registered
\* sockets.
BackendPolls ==
    /\ threads.panic = ""
    /\ backend_handler.events = {}
    /\ \E batch \in SUBSET backend_handler.poll :
          /\ batch # {}
          /\ Cardinality(batch) <= MaxBatch
          /\ backend_handler' = [backend_handler EXCEPT !.events = batch]
    /\ threads' = Ran("bpoll", <<>>)
    /\ UNCHANGED <<frontend_handler, channels, driver_vars, tok>>

\* handler.ready(token, events) in the backend thread.
BackendEvent ==
    /\ threads.panic = ""
    /\ \E token \in backend_handler.events, evs \in SocketEvents :
          LET r == BackendReady([backend_handler EXCEPT !.events = @ \ {token}],
                                token, evs)
          IN  /\ backend_handler' = r.handler
              /\ channels' = [channels EXCEPT !.frontend = @ \o r.sent]
              /\ threads' = [Ran("bready", <<>>) EXCEPT !.panic = r.panic]
    /\ UNCHANGED <<frontend_handler, driver_vars, tok>>

\* handler.notify(msg) in the backend thread.
BackendMessage ==
    /\ threads.panic = ""
    /\ backend_handler.events = {}
    /\ channels.backend # <<>>
    /\ \E connect_ok \in BOOLEAN :
          LET msg == Head(channels.backend)
              r == BackendNotify(backend_handler, msg, connect_ok)
          IN  /\ msg.type # "AcceptConnection" => connect_ok
              /\ backend_handler' = r.handler
              /\ channels' = [channels EXCEPT !.backend = Tail(@),
                                              !.frontend = @ \o r.sent]
              /\ threads' = [Ran("bnotify", msg) EXCEPT !.panic = r.panic]
    /\ UNCHANGED <<frontend_handler, driver_vars, tok>>

(***************************************************************************)
(* Specifications.  Each runs the dispatcher from its constructed state in *)
(* an environment that bounds what clients, peers and the administrator    *)
(* do in one run.                                                          *)
(***************************************************************************)
\* A configuration like that of the tests: one frontend, its backend with two targets.
TestConfig == {[listen_addr |-> "P1", target_addrs |-> <<"T1", "T2">>]}

\* The dispatcher: two clients, one byte in flight, the test configuration.
Init ==
    /\ InitDriver
    /\ env = [accepts |-> 2, bytes |-> 1, reconfs |-> 1,
              configs |-> {TestConfig}, busy |-> {},
              dns |-> {"one"}, sends |-> 0, trace |-> FALSE,
              lready |-> {{"R"}}, since |-> 0]
    /\ tok = NoTok
    /\ ThreadsOff

Next ==
    \/ Poll
    \/ ListenerEvent
    \/ IncomingEvent
    \/ OutgoingEvent
    \/ Tick
    \/ Reconfigure

Spec == Init /\ [][Next]_vars

\* The data plane: one client, MaxBytes bytes sent by the peers.
InitPipe ==
    /\ InitDriver
    /\ env = [accepts |-> 1, bytes |-> MaxBytes, reconfs |-> 1,
              configs |-> {TestConfig}, busy |-> {},
              dns |-> {"one"}, sends |-> 0, trace |-> TRUE,
              lready |-> {{"R"}}, since |-> 0]
    /\ tok = NoTok
    /\ ThreadsOff

SpecPipe == InitPipe /\ [][Next]_vars

\* The data plane with more bytes than one buffer holds: one client, the
\* peers send BufferSize + 1 bytes.
InitFill ==
    /\ InitDriver
    /\ env = [accepts |-> 1, bytes |-> BufferSize + 1, reconfs |-> 1,
              configs |-> {TestConfig}, busy |-> {},
              dns |-> {"one"}, sends |-> 0, trace |-> TRUE,
              lready |-> {{"R"}}, since |-> 0]
    /\ tok = NoTok
    /\ ThreadsOff

SpecFill == InitFill /\ [][Next]_vars

\* Configurations that add, rebind and drop the listener of P1.
ReconfConfigs ==
    {{},
     {[listen_addr |-> "P1", target_addrs |-> <<"T1", "T2">>]},
     {[listen_addr |-> "P1", target_addrs |-> <<"T3">>]},
     {[listen_addr |-> "P1", target_addrs |-> <<"T3">>],
      [listen_addr |-> "P2", target_addrs |-> <<"T1", "T2">>]}}

\* Routing: MaxAccepts clients and no socket event, MaxReconfs configurations;
\* P2 may be held by another process.
InitRoute ==
    /\ InitDriver
    /\ env = [accepts |-> MaxAccepts, bytes |-> 0, reconfs |-> MaxReconfs,
              configs |-> ReconfConfigs, busy |-> {"P2"},
              dns |-> {"one"}, sends |-> 0, trace |-> FALSE,
              lready |-> {{"R"}}, since |-> 0]
    /\ tok = NoTok
    /\ ThreadsOff

NextRoute ==
    \/ Poll
    \/ ListenerEvent
    \/ Tick
    \/ Reconfigure

SpecRoute == InitRoute /\ [][NextRoute]_vars

\* Listeners: MaxReconfs configurations, one client and no socket event.
InitListen ==
    /\ InitDriver
    /\ env = [accepts |-> 1, bytes |-> 0, reconfs |-> MaxReconfs,
              configs |-> Configs, busy |-> Addrs,
              dns |-> {"one"}, sends |-> 0, trace |-> FALSE,
              lready |-> {{"R"}}, since |-> 0]
    /\ tok = NoTok
    /\ ThreadsOff

SpecListen == InitListen /\ [][NextRoute]_vars

\* The dispatcher with an administrator that sends it messages.  The loop of
\* Driver::run never waits but in poll.poll, so a handler or a tick that can
\* run does run, and the poller is taken to report a ready socket in the end.
InitMsg ==
    /\ InitDriver
    /\ env = [accepts |-> 1, bytes |-> 1, reconfs |-> 1,
              configs |-> {TestConfig}, busy |-> {},
              dns |-> {"one"}, sends |-> MaxSends, trace |-> FALSE,
              lready |-> {{"R"}}, since |-> 0]
    /\ tok = NoTok
    /\ ThreadsOff

NextMsg ==
    \/ Poll
    \/ ListenerEvent
    \/ IncomingEvent
    \/ OutgoingEvent
    \/ Tick
    \/ Reconfigure
    \/ SendMessage

SpecMsg ==
    /\ InitMsg
    /\ [][NextMsg]_vars
    /\ WF_vars(Poll)
    /\ WF_vars(ListenerEvent)
    /\ WF_vars(IncomingEvent)
    /\ WF_vars(OutgoingEvent)
    /\ WF_vars(Tick)

\* Configurations that add an address while they keep or drop another.
AbortConfigs ==
    {{},
     {[listen_addr |-> "P1", target_addrs |-> <<"T1", "T2">>]},
     {[listen_addr |-> "P2", target_addrs |-> <<"T3">>]},
     {[listen_addr |-> "P1", target_addrs |-> <<"T3">>],
      [listen_addr |-> "P2", target_addrs |-> <<"T1", "T2">>]}}

\* Reconfigurations that may fail: the resolver may answer anything and any
\* address may be held by another process.
InitAbort ==
    /\ InitDriver
    /\ env = [accepts |-> 1, bytes |-> 0, reconfs |-> MaxReconfs,
              configs |-> AbortConfigs, busy |-> Addrs,
              dns |-> Resolutions, sends |-> 0, trace |-> TRUE,
              lready |-> {{"R"}}, since |-> 0]
    /\ tok = NoTok
    /\ ThreadsOff

SpecAbort == InitAbort /\ [][NextRoute]_vars

\* Live reconfiguration with a connection in flight: two configurations, one
\* client, one byte; P2 may be held by another process.
InitReconf ==
    /\ InitDriver
    /\ env = [accepts |-> 1, bytes |-> 1, reconfs |-> 2,
              configs |-> ReconfConfigs, busy |-> {"P2"},
              dns |-> {"one"}, sends |-> 0, trace |-> FALSE,
              lready |-> {{"R"}}, since |-> 0]
    /\ tok = NoTok
    /\ ThreadsOff

SpecReconf == InitReconf /\ [][Next]_vars

\* Listeners whose events come with any readiness the poller can report for
\* a socket registered for readable and writable: MaxAccepts clients, no
\* socket event of a connection, the test configuration.
InitHangup ==
    /\ InitDriver
    /\ env = [accepts |-> MaxAccepts, bytes |-> 0, reconfs |-> 1,
              configs |-> {TestConfig}, busy |-> {},
              dns |-> {"one"}, sends |-> 0, trace |-> FALSE,
              lready |-> ReadyValues, since |-> 0]
    /\ tok = NoTok
    /\ ThreadsOff

SpecHangup == InitHangup /\ [][NextRoute]_vars

\* The token codec.
InitToken ==
    /\ InitDriver
    /\ env = [accepts |-> 0, bytes |-> 0, reconfs |-> 0, configs |-> {}, busy |-> {},
              dns |-> {}, sends |-> 0, trace |-> FALSE,
              lready |-> {{"R"}}, since |-> 0]
    /\ \E a \in Tokens, b \in Tokens :
          tok = [NoTok EXCEPT !.phase = "in", !.a = a, !.b = b]
    /\ ThreadsOff

NextToken ==
    \/ Encode
    \/ Decode

SpecToken == InitToken /\ [][NextToken]_vars

\* The two threads: two clients, MaxEvents events of their sockets;
\* the dispatcher does not run.
InitThreads ==
    /\ InitDriver
    /\ env = [accepts |-> 0, bytes |-> 0, reconfs |-> 0, configs |-> {}, busy |-> {},
              dns |-> {}, sends |-> 0, trace |-> FALSE,
              lready |-> {{"R"}}, since |-> 0]
    /\ tok = NoTok
    /\ frontend_handler = [connections |-> <<>>, poll |-> <<>>, events |-> {}]
    /\ backend_handler = [connections |-> <<>>, poll |-> {}, events |-> {},
                          next_id |-> 0]
    /\ channels = [backend |-> <<>>, frontend |-> <<>>]
    /\ threads = [accepts |-> 2, events |-> MaxEvents, panic |-> "",
                  op |-> "none", msg |-> <<>>]

NextThreads ==
    \/ FrontendPolls
    \/ FrontendEvent
    \/ FrontendMessage
    \/ BackendPolls
    \/ BackendEvent
    \/ BackendMessage

SpecThreads == InitThreads /\ [][NextThreads]_vars

(***************************************************************************)
(* Properties of the data plane (checked under SpecPipe and Spec).         *)
(***************************************************************************)
\* Every byte read from the socket of from is either in from's buffer or has
\* been written, in order, to the socket of to.
Passed(c, from, to) ==
    c.points[to].stream.written \o c.points[from].buffer
        = Bytes(0, c.points[from].stream.read)

\* C1: byte transparency.  While neither half of a pair is closed, the bytes
\* written to the outgoing socket are, in order, exactly the bytes read from
\* the incoming socket less those still buffered, and vice versa: no byte is
\* dropped, synthesized or reordered, whatever the reads and writes return.
C1_ByteTransparency ==
    \A i \in DOMAIN incoming_connections :
        LET c == incoming_connections[i]
        IN  (~is_incoming_closed(c) /\ ~is_outgoing_closed(c))
                => (Passed(c, Front, Back) /\ Passed(c, Back, Front))

\* C2: slot parity.  Between event handlers, every occupied incoming slot i
\* has exactly one outgoing slot o with outgoing_connections_token[o] =
\* Some(i), and o is the outgoing token the connection at i holds.
C2_SlotParity ==
    pc # "panicked" =>
        \A i \in DOMAIN incoming_connections :
            LET o == outgoing_token(incoming_connections[i])
            IN  /\ o \in DOMAIN outgoing_connections_token
                /\ outgoing_connections_token[o] = i
                /\ {u \in DOMAIN outgoing_connections_token :
                        outgoing_connections_token[u] = i} = {o}

\* The pair at incoming slot i is the one the last handler ran tick() on.
LastTicked(i) ==
    /\ last.ticked
    /\ \/ last.op = "incoming" /\ last.token = i
       \/ last.op = "outgoing" /\ last.token = outgoing_token(incoming_connections[i])

\* C3: after an Incoming or an Outgoing event whose tick() made no progress,
\* a pair with a closed half is destroyed: no pair that the handler ticked
\* without progress is still in the incoming slab with a half closed.
C3_ClosedPairDestroyed ==
    \A i \in DOMAIN incoming_connections :
        (LastTicked(i) /\ ~last.sended)
            => ~(is_incoming_closed(incoming_connections[i])
                 \/ is_outgoing_closed(incoming_connections[i]))

Occupancy(slab) == Cardinality(DOMAIN slab)

C4_CountsEqual ==
    Occupancy(incoming_connections) = Occupancy(outgoing_connections_token)

\* A step that frees an incoming slot frees the outgoing slot of that pair
\* too, and takes one from each occupancy count.
C4_RemovalFreesBoth ==
    \A i \in DOMAIN incoming_connections \ DOMAIN incoming_connections' :
        /\ outgoing_token(incoming_connections[i]) \notin DOMAIN outgoing_connections_token'
        /\ Occupancy(incoming_connections') = Occupancy(incoming_connections) - 1
        /\ Occupancy(outgoing_connections_token')
               = Occupancy(outgoing_connections_token) - 1

\* C4: no leakage on close.  The removal of a pair frees its incoming and its
\* outgoing slot in the same step, and the occupancy counts of the two slabs
\* are equal after every handler.
C4_NoLeakageOnClose == []C4_CountsEqual /\ [][C4_RemovalFreesBoth]_vars

\* A pair was removed by the last handler while another pair stays.
C4_PairRemoved ==
    /\ last.op = "incoming"
    /\ last.ticked
    /\ last.token \notin DOMAIN incoming_connections
    /\ Occupancy(incoming_connections) = 1
    /\ Occupancy(outgoing_connections_token) = 1

(***************************************************************************)
(* Properties of routing (checked under SpecRoute).                        *)
(***************************************************************************)
\* The step is a listener event that accepted a connection.
Accepted == last'.op = "listener" /\ env'.accepts < env.accepts

\* The pairs the step created.
NewPairs == DOMAIN incoming_connections' \ DOMAIN incoming_connections

\* The target address of the pair at incoming slot i.
TargetOf(ic, i) == ic[i].points[Back].stream.addr

\* The listen address the pair at incoming slot i was accepted on.
AcceptedOn(ic, i) == ic[i].points[Front].stream.addr

C5_CursorFollowsCalls ==
    \A t \in DOMAIN listeners :
        LET b == listeners[t].frontend.backend
        IN  b.cursor = b.calls % Len(b.target_addrs)

\* An accepted connection makes one call on the router of its listener, and
\* the call numbered j (from 0) returns the target at index j mod n.
C5_CallReturnsNext ==
    Accepted =>
        LET t == last'.token
            b == listeners[t].frontend.backend
        IN  /\ listeners'[t].frontend.backend.calls = b.calls + 1
            /\ \A i \in NewPairs :
                   TargetOf(incoming_connections', i)
                       = b.target_addrs[(b.calls % Len(b.target_addrs)) + 1]

\* C5: round-robin.  A router over targets t0..t(n-1) returns t(j mod n) at
\* its j-th call, one call per accepted connection, so that n*k consecutive
\* calls return every target k times in list order.
C5_RoundRobin == []C5_CursorFollowsCalls /\ [][C5_CallReturnsNext]_vars

\* Three calls on a router of two targets: the first connect failed, the
\* second went to T2 and the third, wrapping around, to T1.
C5_WrappedAround ==
    /\ pc # "panicked"
    /\ \E t \in DOMAIN listeners :
          /\ listeners[t].frontend.backend.target_addrs = <<"T1", "T2">>
          /\ listeners[t].frontend.backend.calls = 3
    /\ DOMAIN incoming_connections = {1, 2}
    /\ TargetOf(incoming_connections, 1) = "T2"
    /\ TargetOf(incoming_connections, 2) = "T1"

(***************************************************************************)
(* Properties of the token codec (checked under SpecToken).                *)
(***************************************************************************)
\* C6: token round trip.  For every variant and every slot that fits in the
\* word less two bits, decoding the encoded token gives the token back; two
\* distinct fitting tokens encode to distinct raw tokens; and no encoded
\* token has its low two bits equal to 3.
C6_TokenRoundTrip ==
    tok.phase = "out" =>
        /\ Fits(tok.a) => tok.out_a = tok.a
        /\ (Fits(tok.a) /\ Fits(tok.b) /\ tok.a # tok.b) => tok.raw_a # tok.raw_b
        /\ tok.raw_a % 4 # 3

\* The largest fitting slot of an Incoming token, decoded, next to a different
\* token of the same slot.
C6_LargestSlotDecoded ==
    /\ tok.phase = "out"
    /\ tok.a = [variant |-> "Incoming", slot |-> Pow2(WordBits - 2) - 1]
    /\ tok.b = [variant |-> "Outgoing", slot |-> Pow2(WordBits - 2) - 1]
    /\ tok.out_a = tok.a

(***************************************************************************)
(* Properties of live reconfiguration (checked under SpecListen, SpecRoute *)
(* and SpecReconf).                                                        *)
(***************************************************************************)
\* The listen addresses of the frontends of configuration cfg.
ConfigAddrs(cfg) == {f.listen_addr : f \in cfg}

\* The step is a call of reconfigure.
Reconfigured == last'.op = "reconfigure"

\* C7: after every successful reconfiguration, and the post-batch steps that
\* follow it, the listen addresses of the listeners in the slab are exactly
\* the listen addresses of the frontends of the applied configuration, one
\* listener for each, also when an address removed earlier is added again.
C7_ListenersMatchConfig ==
    config.result = "ok" =>
        /\ ListenAddrs(listeners) = ConfigAddrs(config.frontends)
        /\ Cardinality(DOMAIN listeners) = Cardinality(ListenAddrs(listeners))

\* P1 had a listener that accepted a connection, lost it, and has a listener
\* again that the last of MaxReconfs reconfigurations opened and that has
\* accepted nothing yet.
C7_AddressAddedAgain ==
    /\ config.result = "ok"
    /\ env.reconfs = 0
    /\ \E t \in DOMAIN listeners :
          /\ listeners[t].listen_addr = "P1"
          /\ listeners[t].listener.opened = 1
          /\ listeners[t].frontend.backend.calls = 0
    /\ \E i \in DOMAIN incoming_connections :
          AcceptedOn(incoming_connections, i) = "P1"

C8_PairsUntouched ==
    Reconfigured =>
        UNCHANGED <<incoming_connections, outgoing_connections_token, to_reregister>>

\* The post-batch step re-arms both sockets of every dirty pair that exists.
C8_DirtyPairsRearmed ==
    (last'.op = "tick" /\ pc' = "poll") =>
        \A t \in to_reregister \cap DOMAIN incoming_connections :
            \A k \in ConnTokens(incoming_connections[t], t) :
                k \in DOMAIN poll' /\ poll'[k] = "oneshot"

\* C8: reconfigure leaves the in-flight pairs untouched.  It changes neither
\* the incoming slab (with every pair's buffers and readiness flags), nor the
\* outgoing slab, nor the dirty set, also when it removes the listener a pair
\* was accepted on; such pairs are ticked and re-armed afterwards as before.
C8_InFlightUntouched == [][C8_PairsUntouched /\ C8_DirtyPairsRearmed]_vars

\* A pair whose listener a reconfiguration removed is ticked, passes bytes
\* and is marked for re-registration.
C8_OrphanTicked ==
    /\ config.result = "ok"
    /\ last.op \in {"incoming", "outgoing"}
    /\ last.sended
    /\ \E i \in to_reregister \cap DOMAIN incoming_connections :
          /\ LastTicked(i)
          /\ AcceptedOn(incoming_connections, i) \notin ListenAddrs(listeners)
          /\ incoming_connections[i].points[Back].stream.written # <<>>

\* After a successful reconfiguration no address outside the configuration
\* has a listener, and the poller holds no listener the slab does not.
C9_DroppedNotListening ==
    config.result = "ok" =>
        /\ \A t \in DOMAIN listeners :
               listeners[t].listen_addr \in ConfigAddrs(config.frontends)
        /\ \A k \in DOMAIN poll :
               from_raw_token(k).variant = "Listener"
                   => from_raw_token(k).slot \in DOMAIN listeners

\* A connection is accepted on an address of the applied configuration only.
C9_AcceptOnConfigured ==
    (Accepted /\ config.result = "ok") =>
        /\ last'.token \in DOMAIN listeners
        /\ listeners[last'.token].listen_addr \in ConfigAddrs(config.frontends)
        /\ \A i \in NewPairs :
               AcceptedOn(incoming_connections', i) \in ConfigAddrs(config.frontends)

\* C9: reconfigure-drop.  Once a configuration without listen address P has
\* been applied, P has no listener and no connection is accepted on P, until
\* a later configuration contains P again.
C9_ReconfigureDrop == []C9_DroppedNotListening /\ [][C9_AcceptOnConfigured]_vars

\* P1 accepted a connection, was dropped, and accepted another one under the
\* listener that the last of MaxReconfs reconfigurations opened.
C9_DroppedThenBack ==
    /\ config.result = "ok"
    /\ env.reconfs = 0
    /\ \E t \in DOMAIN listeners :
          /\ listeners[t].listen_addr = "P1"
          /\ listeners[t].listener.opened = 1
          /\ listeners[t].frontend.backend.calls = 1
    /\ DOMAIN incoming_connections = {1, 2}
    /\ \A i \in DOMAIN incoming_connections :
          AcceptedOn(incoming_connections, i) = "P1"

\* The frontends configuration cfg makes for listen address a.
FrontendsFor(cfg, a) ==
    {NewFrontend(f.listen_addr, f.target_addrs) : f \in {g \in cfg : g.listen_addr = a}}

\* The poller's registration under raw token k: its mode, or "none".
Registration(p, k) == IF k \in DOMAIN p THEN p[k] ELSE "none"

\* A listener whose address the new configuration keeps stays in its slot with
\* its socket, token and registration, and gets a frontend of the configuration.
C10_ListenerKept ==
    Reconfigured =>
        \A t \in DOMAIN listeners :
            listeners[t].listen_addr \in ConfigAddrs(config'.frontends) =>
                /\ t \in DOMAIN listeners'
                /\ listeners'[t].listener = listeners[t].listener
                /\ listeners'[t].listen_addr = listeners[t].listen_addr
                /\ listeners'[t].token = listeners[t].token
                /\ Registration(poll', ListenerAsRawToken(t))
                       = Registration(poll, ListenerAsRawToken(t))
                /\ listeners'[t].frontend
                       \in FrontendsFor(config'.frontends, listeners[t].listen_addr)

\* An accepted connection is routed to a target of the backend its listener
\* refers to, which is a backend of the configuration handed over last.
C10_RoutedToNewBackend ==
    Accepted =>
        LET l == listeners[last'.token]
        IN  /\ \A i \in NewPairs :
                   \E n \in 1..Len(l.frontend.backend.target_addrs) :
                       TargetOf(incoming_connections', i) = l.frontend.backend.target_addrs[n]
            /\ l.listen_addr \in ConfigAddrs(config.frontends) =>
                   l.frontend.backend.target_addrs
                       \in {f.target_addrs : f \in {g \in config.frontends :
                                                        g.listen_addr = l.listen_addr}}

\* C10: reconfigure-rebind.  A listener whose listen address the new
\* configuration keeps retains its bound socket, its slot and token and its
\* poller registration; only its frontend is replaced, and every connection
\* accepted on it afterwards goes to a target of the new backend.
C10_ReconfigureRebind == [][C10_ListenerKept /\ C10_RoutedToNewBackend]_vars

\* The listener the first reconfiguration opened on P1 routed a connection to
\* T1, was rebound to the backend of T3 and routed the next connection to T3.
C10_ReboundRouted ==
    /\ \E t \in DOMAIN listeners :
          /\ listeners[t].listen_addr = "P1"
          /\ listeners[t].listener.opened = MaxReconfs
          /\ listeners[t].frontend.backend.target_addrs = <<"T3">>
          /\ listeners[t].frontend.backend.calls = 1
    /\ DOMAIN incoming_connections = {1, 2}
    /\ AcceptedOn(incoming_connections, 1) = "P1"
    /\ AcceptedOn(incoming_connections, 2) = "P1"
    /\ TargetOf(incoming_connections, 1) = "T1"
    /\ TargetOf(incoming_connections, 2) = "T3"

(***************************************************************************)
(* Properties of reconfigurations that fail (checked under SpecAbort).     *)
(***************************************************************************)
\* The step is a reconfiguration during which some name did not resolve to
\* exactly one address.
ResolutionFailed == Reconfigured /\ last'.how \in {"resolve_err", "panic"}

\* C11: when the resolution of a listen or target name fails during a
\* reconfiguration (no address, or more than one), reconfigure returns the
\* resolution error, the dispatcher goes on, and the listener slab (sockets,
\* addresses, frontends) and the registrations are as before the call.
C11_ResolutionErrorKeepsListeners ==
    [][ResolutionFailed =>
          /\ config'.result = "resolve_err"
          /\ pc' = "poll"
          /\ UNCHANGED <<listeners, poll>>]_vars

\* The step is a reconfiguration that a failed bind (or a full listener slab)
\* ended.
BindFailed == Reconfigured /\ config'.result = "err"

\* C12: when a bind fails, reconfigure returns the error without removing a
\* listener, and every address it had bound before the failure has a listener
\* in the slab, registered edge-triggered with the poller.
C12_PartialBindingsRemain ==
    [][BindFailed =>
          /\ DOMAIN listeners \subseteq DOMAIN listeners'
          /\ \A a \in last'.bound :
                /\ a \notin ListenAddrs(listeners)
                /\ a \in ListenAddrs(listeners')
                /\ Registration(poll', ListenerAsRawToken(ListenerAt(listeners', a)))
                       = "edge"]_vars

\* A reconfiguration has bound P1, failed to bind P2, and P1 listens.
C12_BoundBeforeFailure ==
    /\ last.op = "reconfigure"
    /\ last.how = "err"
    /\ last.bound = {"P1"}
    /\ ListenAddrs(listeners) = {"P1"}
    /\ config.frontends = {[listen_addr |-> "P1", target_addrs |-> <<"T3">>],
                           [listen_addr |-> "P2", target_addrs |-> <<"T1", "T2">>]}

SameSocket(ls, p, ls2, p2, t) ==
    /\ t \in DOMAIN ls2
    /\ ls2[t].listener = ls[t].listener
    /\ ls2[t].listen_addr = ls[t].listen_addr
    /\ ls2[t].token = ls[t].token
    /\ Registration(p2, ListenerAsRawToken(t)) = Registration(p, ListenerAsRawToken(t))

SlabFull(ic, oc) ==
    \/ Occupancy(ic) = ConnectionsCap
    \/ Occupancy(oc) = ConnectionsCap

\* C14: a listener event that accepts a client while the incoming or the
\* outgoing slab is full drops the client: the dispatcher keeps running and
\* both slabs are as they were.
C14_FullSlabDropsClient ==
    [][(Accepted /\ SlabFull(incoming_connections, outgoing_connections_token)) =>
          /\ pc' # "panicked"
          /\ UNCHANGED <<incoming_connections, outgoing_connections_token>>]_vars

\* The step is a listener event in which accept() or the connect failed, on a
\* listener that is in the slab.
AcceptOrConnectFailed ==
    /\ last'.op = "listener"
    /\ last'.how \in {"accept_err", "connect_err"}
    /\ last'.token \in DOMAIN listeners'

\* C15: after a listener event in which accept() or the connect failed, the
\* listener is armed with the poller.
C15_ListenerRearmed ==
    [][AcceptOrConnectFailed =>
          ListenerAsRawToken(last'.token) \in DOMAIN poll']_vars

\* The step is a listener event in which the connect to the target failed.
ConnectErr == last'.op = "listener" /\ last'.how = "connect_err"

\* C16: when the connect to the chosen target fails, the accepted client is
\* used up and no slot of either slab is taken or changed, nothing is
\* registered with the poller and nothing is added to the dirty set.
C16_ConnectFailureAllocatesNothing ==
    [][ConnectErr =>
          /\ env'.accepts = env.accepts - 1
          /\ UNCHANGED <<incoming_connections, outgoing_connections_token,
                         poll, to_reregister>>]_vars

\* The connect for a second client has failed while the first client's pair
\* is the only pair.
C16_ConnectFailedBesidePair ==
    /\ last.op = "listener"
    /\ last.how = "connect_err"
    /\ env.accepts = MaxAccepts - 2
    /\ Occupancy(incoming_connections) = 1
    /\ Occupancy(outgoing_connections_token) = 1

(***************************************************************************)
(* Properties of the dispatcher's messages (checked under SpecMsg).        *)
(***************************************************************************)
\* Message m waits in the channel.
Waiting(m) == \E i \in DOMAIN inbox : inbox[i] = m

\* C17: once a Shutdown message has been sent to the running dispatcher, the
\* dispatcher leaves its loop in the end and is stopped.
C17_ShutdownStops == Waiting("Shutdown") ~> (pc = "stopped")

\* C18: a Reconfigure message sent to the running dispatcher is taken from
\* the channel and applied in the end.
C18_ReconfigureApplied == Waiting("Reconfigure") ~> ~Waiting("Reconfigure")

(***************************************************************************)
(* Properties of writes that take less than is buffered, and of the        *)
(* destruction of a pair (checked under SpecPipe).                         *)
(***************************************************************************)
\* In the step from connection c to connection d, the bytes written to `to`
\* followed by the bytes queued for it are those of before followed by the
\* bytes newly read from `from`: what a write did not take stays queued,
\* ahead of the new bytes.
TailKept(c, d, from, to) ==
    d.points[to].stream.written \o d.points[from].buffer
        = c.points[to].stream.written \o c.points[from].buffer
            \o Bytes(c.points[from].stream.read,
                     d.points[from].stream.read - c.points[from].stream.read)

\* C19: whatever a write takes (all, a part or nothing of what is buffered),
\* the bytes it did not take stay queued for that half, in order and ahead of
\* the bytes read afterwards; no step on a pair drops them.
C19_ShortWriteKeepsTail ==
    [][\A i \in DOMAIN incoming_connections \cap DOMAIN incoming_connections' :
          /\ TailKept(incoming_connections[i], incoming_connections'[i], Front, Back)
          /\ TailKept(incoming_connections[i], incoming_connections'[i], Back, Front)]_vars

\* The pairs the step destroys.
Destroyed == DOMAIN incoming_connections \ DOMAIN incoming_connections'

\* C20: a pair is not destroyed while it holds bytes read from the client
\* whose destination, the target's half, is not closed.  (The handler that
\* destroys a pair has written nothing in its tick, so what the client's
\* buffer held before the step it holds at the destruction; the claim says
\* the same of the other direction.)
C20_NoDestroyWithPendingBytes ==
    [][\A i \in Destroyed :
          \/ incoming_connections[i].points[Front].buffer_index = 0
          \/ is_outgoing_closed(incoming_connections[i])]_vars

(***************************************************************************)
(* Properties of tick() and of the handlers of a connection's events       *)
(* (checked under SpecPipe).                                               *)
(***************************************************************************)
\* The incoming slot of the pair whose handler ran tick() in the step, 0 when
\* the step is no event of a pair.
EventPair ==
    IF last'.op = "incoming" /\ last'.ticked THEN last'.token
    ELSE IF last'.op = "outgoing" /\ last'.ticked
         THEN outgoing_connections_token[last'.token]
         ELSE 0

\* The event's handler left the pair in place: the pair is in the incoming
\* slab and an Outgoing event has not set its mapping to None.
PairSurvives ==
    /\ EventPair \in DOMAIN incoming_connections'
    /\ last'.op = "outgoing" => outgoing_connections_token'[last'.token] # NoneToken

\* C21: after an Incoming or Outgoing event that does not destroy the pair,
\* the pair's incoming slot is in the dirty set (so that the step after the
\* batch re-arms both of its sockets).
C21_SurvivingPairDirty ==
    [][(EventPair # 0 /\ PairSurvives) => EventPair \in to_reregister']_vars

\* The bytes written so far to the two sockets of connection c.
Written(c) == <<c.points[Front].stream.written, c.points[Back].stream.written>>

\* C22: the tick() of an event's handler returns true if and only if it wrote
\* at least one byte to a socket of the pair.
C22_TrueIffByteWritten ==
    [][(EventPair # 0 /\ EventPair \in DOMAIN incoming_connections') =>
          (last'.sended <=> Written(incoming_connections'[EventPair])
                               # Written(incoming_connections[EventPair]))]_vars

\* In the step from connection c to connection d bytes were written to the
\* socket of half `to`.
WroteTo(c, d, to) ==
    Len(d.points[to].stream.written) > Len(c.points[to].stream.written)

\* After a transfer from half `from` to half `to`, READABLE is cleared on
\* `from` and WRITABLE on `to`.
Cleared(d, from, to) ==
    /\ ~is_readable(d.points[from].state)
    /\ ~is_writable(d.points[to].state)

\* C23: a tick() that has written bytes of one half to the other leaves
\* READABLE cleared on the half read from and WRITABLE cleared on the half
\* written to, in either direction.
C23_TransferClearsFlags ==
    [][(EventPair # 0 /\ EventPair \in DOMAIN incoming_connections') =>
          LET c == incoming_connections[EventPair]
              d == incoming_connections'[EventPair]
          IN  /\ WroteTo(c, d, Back) => Cleared(d, Front, Back)
              /\ WroteTo(c, d, Front) => Cleared(d, Back, Front)]_vars

\* The half whose socket the event of the step belongs to.
EventHalf == IF last'.op = "incoming" THEN Front ELSE Back

\* The step is an event of a surviving pair in whose tick() the read of the
\* event's socket returned nothing (WOULDBLOCK).
ReadBlocked ==
    /\ EventPair # 0
    /\ EventPair \in DOMAIN incoming_connections'
    /\ last'.how = "wouldblock"

\* The bytes buffered in half p are the same in connections c and d.
SameBuffer(c, d, p) ==
    /\ d.points[p].buffer = c.points[p].buffer
    /\ d.points[p].buffer_index = c.points[p].buffer_index

\* C24 as stated: a read that returns WOULDBLOCK clears nothing: the flags of
\* the half are those it had when the read was attempted (its flags with the
\* event's readiness noted), and in a tick() that writes nothing its buffered
\* bytes are the same.
C24_WouldBlockClearsNothing ==
    [][ReadBlocked =>
          LET c == incoming_connections[EventPair]
              d == incoming_connections'[EventPair]
          IN  /\ d.points[EventHalf].state = c.points[EventHalf].state \cup last'.ready
              /\ ~last'.sended => SameBuffer(c, d, EventHalf)]_vars

\* C24 amended: a read that returns WOULDBLOCK keeps the buffered bytes of the
\* half and every flag but READABLE, which tick() clears after each read
\* attempt.
C24_WouldBlockClearsReadable ==
    [][ReadBlocked =>
          LET c == incoming_connections[EventPair]
              d == incoming_connections'[EventPair]
          IN  /\ d.points[EventHalf].state
                     = (c.points[EventHalf].state \cup last'.ready) \ {"R"}
              /\ d.points[EventHalf].stream.read = c.points[EventHalf].stream.read
              /\ ~last'.sended => SameBuffer(c, d, EventHalf)]_vars

\* The client's socket reported READABLE while a byte read before was still
\* buffered, and the read returned nothing: the byte is still buffered.
C24_BlockedWithBufferedByte ==
    /\ last.op = "incoming"
    /\ last.how = "wouldblock"
    /\ last.ready = {"R"}
    /\ ~last.sended
    /\ last.token \in DOMAIN incoming_connections
    /\ incoming_connections[last.token].points[Front].buffer = <<1>>
    /\ ~is_readable(incoming_connections[last.token].points[Front].state)

(***************************************************************************)
(* Properties of the step after a batch (checked under SpecPipe).          *)
(***************************************************************************)
\* Driver::tick applied to the state with any set of listeners of the slab to
\* remove: it does not panic, and the listeners named are out of the slab and
\* deregistered.  (DriverState::reconfigure removes listeners itself and leaves
\* listeners_to_remove empty, so the set is drawn here.)
C25_RemovalDrops ==
    \A rm \in SUBSET DOMAIN listeners :
       LET r == driver_tick(incoming_connections, listeners, poll, to_reregister, rm)
       IN  /\ ~r.panic
           /\ \A t \in rm :
                 /\ t \notin DOMAIN r.listeners
                 /\ Registration(r.poll, ListenerAsRawToken(t)) = "none"
           /\ \A t \in DOMAIN listeners \ rm :
                 /\ t \in DOMAIN r.listeners
                 /\ Registration(r.poll, ListenerAsRawToken(t))
                        = Registration(poll, ListenerAsRawToken(t))

\* The step after a batch leaves the two sets empty, the sockets of the dirty
\* pairs armed and the listeners it was to remove out of the slab.
C25_TickClears ==
    last'.op = "tick" =>
          /\ pc' = "poll"
          /\ to_reregister' = {}
          /\ listeners_to_remove' = {}
          /\ \A i \in to_reregister \cap DOMAIN incoming_connections :
                \A k \in ConnTokens(incoming_connections[i], i) :
                   Registration(poll', k) = "oneshot"
          /\ \A t \in listeners_to_remove :
                /\ t \notin DOMAIN listeners'
                /\ Registration(poll', ListenerAsRawToken(t)) = "none"

\* C25: after the step that follows a batch, the dirty set and the set of
\* listeners to remove are empty, both sockets of every dirty pair that is
\* still in the slab are registered one-shot, and every listener that was to
\* be removed is out of the listener slab and deregistered.
C25_PostBatchBookkeeping == []C25_RemovalDrops /\ [][C25_TickClears]_vars

\* The step after a batch has run for a pair that has passed a byte on: its
\* events had used up the registrations of its sockets, and both are armed.
C25_DirtyPairRearmed ==
    /\ last.op = "tick"
    /\ to_reregister = {}
    /\ \E i \in DOMAIN incoming_connections :
          /\ Len(incoming_connections[i].points[Back].stream.written) > 0
          /\ \A k \in ConnTokens(incoming_connections[i], i) :
                Registration(poll, k) = "oneshot"

(***************************************************************************)
(* Properties of the removal of listeners (checked under SpecAbort).       *)
(***************************************************************************)
\* C26: a reconfiguration removes no listener from the slab and deregisters
\* none; the listener of an address the configuration no longer names is put
\* into listeners_to_remove and stays in the slab, registered, until the step
\* after the next batch.
C26_RemovalDeferred ==
    [][(Reconfigured /\ config'.result = "ok") =>
          \A t \in DOMAIN listeners :
             /\ t \in DOMAIN listeners'
             /\ Registration(poll', ListenerAsRawToken(t))
                    = Registration(poll, ListenerAsRawToken(t))
             /\ listeners[t].listen_addr \notin ConfigAddrs(config'.frontends)
                    => t \in listeners_to_remove']_vars

(***************************************************************************)
(* Properties of the outgoing mapping (checked under SpecPipe).            *)
(***************************************************************************)
\* The step is an Outgoing event whose slot is empty or holds None.
OutgoingOnNone ==
    /\ last'.op = "outgoing"
    /\ \/ last'.token \notin DOMAIN outgoing_connections_token
       \/ outgoing_connections_token[last'.token] = NoneToken

\* C27: an Outgoing event whose outgoing slot is empty or holds None is
\* ignored: the slabs (and with them every connection's readiness and
\* buffers), the dirty set, the listeners and the registrations are unchanged.
C27_NoneMappingIgnored ==
    [][OutgoingOnNone =>
          /\ pc' = "dispatch"
          /\ UNCHANGED <<incoming_connections, outgoing_connections_token,
                         to_reregister, listeners, poll>>]_vars

\* An Outgoing event has found None in its slot while the pair it belonged to
\* is still in the incoming slab.
C27_EventOnNone ==
    /\ last.op = "outgoing"
    /\ ~last.ticked
    /\ last.token \in DOMAIN outgoing_connections_token
    /\ outgoing_connections_token[last.token] = NoneToken
    /\ \E i \in DOMAIN incoming_connections :
          outgoing_token(incoming_connections[i]) = last.token

\* The outgoing slot recorded in every connection of the incoming slab is
\* occupied (by Some or by None).
C28_OutgoingSlotHeld ==
    \A i \in DOMAIN incoming_connections :
       outgoing_token(incoming_connections[i]) \in DOMAIN outgoing_connections_token

\* An Incoming event does not panic, and the pair it removes leaves both
\* slabs.
C28_RemovalSucceeds ==
    last'.op = "incoming" =>
       /\ pc' # "panicked"
       /\ \A i \in Destroyed :
             outgoing_token(incoming_connections[i])
                \notin DOMAIN outgoing_connections_token'

\* C28: remove_connection never fails: the outgoing slot recorded in an
\* occupied incoming slot is occupied too, also once outgoing_ready has set
\* it to None, and remove_connection is called for occupied incoming slots
\* only, so neither expect() fires.
C28_RemoveNeverFails == []C28_OutgoingSlotHeld /\ [][C28_RemovalSucceeds]_vars

\* An Incoming event has removed a pair whose outgoing slot held None.
C28_RemovedAfterNone ==
    /\ last.op = "incoming"
    /\ last.how = "removed_none"
    /\ pc = "dispatch"
    /\ incoming_connections = <<>>
    /\ outgoing_connections_token = <<>>

\* C29: every event dispatched to listener_ready has READABLE set, so its
\* assert!(event.is_readable()) never fails, although a listener is re-armed
\* for readable and writable and may get an error or a hang-up event.
C29_ListenerEventReadable == ~(last.op = "listener" /\ last.how = "assert")

\* The listeners of the configuration in force: those of the addresses of
\* the configuration handed over last, when that call succeeded.
Configured ==
    {t \in DOMAIN listeners :
        /\ config.result = "ok"
        /\ listeners[t].listen_addr \in ConfigAddrs(config.frontends)}

\* The post-batch step does not panic and leaves every configured listener
\* in the slab with its socket and its registration.
C30_TickKeepsConfigured ==
    last'.op = "tick" =>
       /\ pc' # "panicked"
       /\ \A t \in Configured : SameSocket(listeners, poll, listeners', poll', t)

C31_OneListenerPerAddress ==
    \A t, u \in DOMAIN listeners :
       listeners[t].listen_addr = listeners[u].listen_addr => t = u

\* A reconfiguration was handed two frontends of one listen address while
\* a listener of that address was in the slab, and failed on its bind.
C31_AddressNamedTwice ==
    /\ last.op = "reconfigure"
    /\ last.how = "err"
    /\ last.bound = {}
    /\ Cardinality(config.frontends) = 2
    /\ \A f, g \in config.frontends : f.listen_addr = g.listen_addr
    /\ \E t \in DOMAIN listeners :
          \A f \in config.frontends : listeners[t].listen_addr = f.listen_addr

(***************************************************************************)
(* The buffers of a pair (checked under SpecFill).                         *)
(***************************************************************************)
\* buffer_index of either half of every pair is within the buffer.
C32_IndexInBuffer ==
    \A i \in DOMAIN incoming_connections :
       \A p \in {Front, Back} :
          incoming_connections[i].points[p].buffer_index \in 0..BufferSize

\* In a step on a pair, a read adds what it returned behind buffer_index
\* unless a write step reset it to 0, a half whose buffer is full reads
\* nothing, and a write to a half's socket leaves the other half's
\* buffer_index at 0.
C32_ReadsAndResets ==
    \A i \in DOMAIN incoming_connections \cap DOMAIN incoming_connections' :
       \A p \in {Front, Back} :
          LET c == incoming_connections[i].points
              d == incoming_connections'[i].points
              n_read == d[p].stream.read - c[p].stream.read
          IN  /\ n_read \in 0..(BufferSize - c[p].buffer_index)
              /\ d[p].buffer_index \in {0, c[p].buffer_index + n_read}
              /\ d[1 - p].stream.written # c[1 - p].stream.written
                     => d[p].buffer_index = 0

\* C32: buffer_index of each half of a pair stays within 0..BufferSize after
\* any sequence of ticks: absorb reads only into the free rest of the buffer
\* and a write step resets buffer_index to 0; a READABLE event of a half
\* whose buffer is full reads no byte.
C32_BufferIndexBounded == []C32_IndexInBuffer /\ [][C32_ReadsAndResets]_vars

\* A READABLE event of the client's socket found the client's buffer full and
\* read nothing although the client had more to send.
C32_FullBufferRead ==
    /\ last.op = "incoming"
    /\ last.ticked
    /\ is_readable(last.ready)
    /\ last.how = "wouldblock"
    /\ env.bytes > 0
    /\ last.token \in DOMAIN incoming_connections
    /\ incoming_connections[last.token].points[Front].buffer_index = BufferSize

(***************************************************************************)
(* Properties of the two-thread design (checked under SpecThreads).        *)
(***************************************************************************)
\* The step is the backend's notify of a ConnectionEvent.
ConnectionEventHandled ==
    /\ threads'.op = "bnotify"
    /\ Head(channels.backend).type = "ConnectionEvent"

\* The token of the message is free, or the connection stored there has
\* another id.
Stale(bh, msg) ==
    \/ msg.token \notin DOMAIN bh.connections
    \/ bh.connections[msg.token].backend_id # msg.id

\* A stale ConnectionEvent changes nothing in the backend and sends nothing;
\* one that is not stale is given to the connection of the socket it came
\* from; next_id never decreases and is above the id of every connection.
C33_Step ==
    /\ ConnectionEventHandled =>
          LET msg == Head(channels.backend)
          IN  IF Stale(backend_handler, msg)
              THEN /\ backend_handler' = backend_handler
                   /\ channels'.frontend = channels.frontend
                   /\ threads'.panic = ""
              ELSE backend_handler.connections[msg.token].frontend_stream = msg.stream
    /\ backend_handler'.next_id >= backend_handler.next_id
    /\ \A t \in DOMAIN backend_handler'.connections :
          backend_handler'.connections[t].backend_id < backend_handler'.next_id

\* C33: a ConnectionEvent whose backend_id differs from the id of the
\* connection stored at its token, or whose token is free, has no effect;
\* next_id only increases, so an event sent for a connection that was
\* removed is never applied to a later connection in the same slot.
C33_StaleEventIgnored == [][C33_Step]_vars

\* The backend handled an event sent for a connection that was removed while
\* a later connection, of another client, held its slot.
C33_SlotReused ==
    /\ threads.op = "bnotify"
    /\ threads.msg.type = "ConnectionEvent"
    /\ threads.msg.token \in DOMAIN backend_handler.connections
    /\ backend_handler.connections[threads.msg.token].backend_id > threads.msg.id
    /\ backend_handler.connections[threads.msg.token].frontend_stream
          # threads.msg.stream
    /\ backend_handler.connections[threads.msg.token].frontend_state = {}

\* The messages of the frontend's channel that report socket s closed.
ClosedFor(s) ==
    {i \in DOMAIN channels.frontend :
        /\ channels.frontend[i].type = "SocketClosed"
        /\ channels.frontend[i].stream = s}

\* No handler has failed on a free slot or on a socket that is not
\* registered, and a socket is reported closed at most once, while it is
\* registered under the token reported with it.
C34_NoFailure ==
    /\ threads.panic \notin {"index", "deregister"}
    /\ \A i \in DOMAIN channels.frontend :
          LET msg == channels.frontend[i]
          IN  msg.type = "SocketClosed" =>
                 /\ Cardinality(ClosedFor(msg.stream)) = 1
                 /\ msg.stream \in DOMAIN frontend_handler.poll
                 /\ frontend_handler.poll[msg.stream] = msg.token

\* The frontend handles SocketCreated for an occupied slot that has no
\* backend_ref yet, and SocketClosed for an occupied slot that has one.
C34_CreatedBeforeClosed ==
    threads'.op = "fnotify" =>
       LET msg == Head(channels.frontend)
           fc  == frontend_handler.connections
       IN  IF msg.type = "SocketCreated"
           THEN /\ msg.frontend_token \in DOMAIN fc
                /\ fc[msg.frontend_token].backend_ref = NoRef
           ELSE /\ msg.token \in DOMAIN fc
                /\ fc[msg.token].backend_ref # NoRef
                /\ msg.token \notin DOMAIN frontend_handler'.connections

\* C34: for every frontend token allocated by accept_socket the frontend
\* receives SocketCreated before SocketClosed and SocketClosed at most once,
\* so connections[frontend_token] is occupied whenever SocketCreated,
\* SocketClosed or an event of the socket is handled, however the two event
\* loops interleave.
C34_FrontendSlotOccupied == []C34_NoFailure /\ [][C34_CreatedBeforeClosed]_vars

\* Both clients have come and gone: the second was given the token of the
\* first, and the frontend has handled its SocketClosed too.
C34_TokenReusedAndClosed ==
    /\ threads.op = "fnotify"
    /\ threads.msg.type = "SocketClosed"
    /\ threads.msg.stream = 1
    /\ threads.msg.token = 2
    /\ threads.panic = ""
    /\ threads.accepts = 0
    /\ threads.events = 0
    /\ frontend_handler.connections = <<>>
    /\ frontend_handler.poll = <<>>

====
